---- MODULE Spec2Model ----
(***************************************************************************)
(* Transactional inventory ledger of the ERP core: stock mutations, the    *)
(* sale / order state machines, invoice creation, sequential numbers and    *)
(* the transactional outbox, over a PostgreSQL database at READ COMMITTED.  *)
(*                                                                         *)
(* The committed database is the variables stock, minQ, moves, sales,       *)
(* orders, invoices, outbox, ...; every withTransaction call is a           *)
(* process tx[t] whose writes stay in its own buffer (pMoves, pDelta, ...)  *)
(* until its commit step applies them at once; a failure discards them.     *)
(* Row locks (SELECT ... FOR UPDATE, and the lock an UPDATE takes) are the  *)
(* set tx[t].held, kept until the transaction ends.                         *)
(***************************************************************************)
EXTENDS Integers, Sequences, FiniteSets, TLC

VARIABLES
    stock,      \* stocks.quantity per (product, warehouse); NoRow when the row is absent
    minQ,       \* stocks.min_quantity per (product, warehouse)
    moves,      \* stock_movements, in commit order
    sales,      \* sales.status per sale id (NoSale when the row is absent)
    saleNo,     \* sales.sale_number suffix per sale id (NoNumber when the row is absent)
    outbox,     \* outbox_events, in commit order
    tx,         \* the running transactions
    now,        \* Math.floor(Date.now() / 60000)
    nOps,       \* transactions committed so far
    orders,     \* orders.status per order id
    currentStock, \* products.current_stock, the balance the order module works on
    invoices,   \* invoices, in commit order: order id and invoice_number suffix
    catalog,    \* products, warehouses and the stock rows opened for them on creation
    wk,         \* the outbox workers: where each stands in processNextEvent
    hist,       \* history: dispatches per outbox event, claiming transactions timed out
    orderNo,    \* orders.order_number suffix per order id (NoNumber when the row is absent)
    lines,      \* sale_items / order_items: the items of each header row
    proc        \* the worker processes: isRunning, the grace timer, whether it has exited

vars == <<stock, minQ, moves, sales, saleNo, outbox, tx, now, nOps,
          orders, currentStock, invoices, catalog, wk, hist, orderNo, lines, proc>>

(***************************************************************************)
(* Bounds of the model.                                                    *)
(***************************************************************************)
MaxOps == 3        \* transactions that commit in one behaviour
MaxQty == 2        \* largest quantity / target an operation is called with
MaxMinute == 1     \* minute buckets the clock passes through
MaxTimeouts == 1   \* claiming transactions of the worker that run into their time limit

(***************************************************************************)
(* The fixed catalogue: two organizations, their products and warehouses.  *)
(***************************************************************************)
Tx == {"t1", "t2"}
Orgs == {"orgA", "orgB"}
Products == {"p1", "p2", "p3"}
Warehouses == {"w1"}
ArgProducts == Products \cup {"p0"}        \* p0: an id no product has
ArgWarehouses == Warehouses \cup {"w0"}    \* w0: an id no warehouse has
ProductOrg(p) == IF p = "p3" THEN "orgB" ELSE "orgA"
WarehouseOrg(w) == "orgA"
Pairs == Products \X Warehouses
NoRow == -1
NoSale == "none"
NoNumber == <<>>
SaleIds == {"s1", "s2"}
SaleRows == SaleIds \cup {"s3"}            \* s3: an id a later createSale gets
OrderIds == {"o1", "o2"}
OrderRows == OrderIds \cup {"o3"}         \* o3: an id a later createOrder gets
ArgOrders == OrderIds \cup {"o0"}          \* o0: an id no order has
ArgSales == SaleIds \cup {"s0"}            \* s0: an id no sale has
SaleOrg(s) == "orgA"
SaleWh(s) == "w1"
Item(p, q) == [p |-> p, q |-> q]
SaleItems(s) == IF s = "s1" THEN <<Item("p1", 1), Item("p2", 2)>>
                ELSE <<Item("p1", 1), Item("p1", 1)>>
OrderItems(o) == IF o = "o1" THEN <<Item("p1", 1)>>
                 ELSE <<Item("p1", 2), Item("p2", 1)>>
\* input.items of createSale / createOrder (p0: no such product)
ItemLists == {<<Item("p1", 1)>>, <<Item("p2", 2), Item("p1", 1)>>,
              <<Item("p1", 1), Item("p0", 1)>>}
Headers == SaleRows \cup OrderRows

(***************************************************************************)
(* Document numbers: PREFIX-YEAR-NNNNN. A number is kept as its suffix, a   *)
(* string of decimal digits; prefix and year are one fixed scope.           *)
(***************************************************************************)
PadWidth == 5

RECURSIVE Digits(_)
\* nextSeq.toString()
Digits(n) == IF n < 10 THEN <<n>> ELSE Append(Digits(n \div 10), n % 10)

RECURSIVE padStart(_, _)
\* seqStr.padStart(w, "0")
padStart(str, w) == IF Len(str) >= w THEN str ELSE padStart(<<0>> \o str, w)

RECURSIVE parseInt(_)
\* parseInt(seqPart, 10)
parseInt(str) ==
    IF str = <<>> THEN 0
    ELSE 10 * parseInt(SubSeq(str, 1, Len(str) - 1)) + str[Len(str)]

RECURSIVE StrLess(_, _)
\* the order of ORDER BY on a text column, among digit strings
StrLess(x, y) ==
    IF x = <<>> THEN y # <<>>
    ELSE IF y = <<>> THEN FALSE
    ELSE IF x[1] # y[1] THEN x[1] < y[1]
    ELSE StrLess(Tail(x), Tail(y))

\* generateSequentialNumber, from the last number found (NoNumber when none)
NextNumber(lastNumber) ==
    padStart(Digits(IF lastNumber = NoNumber THEN 1 ELSE parseInt(lastNumber) + 1),
             PadWidth)

(***************************************************************************)
(* Pure helpers of the stock service.                                      *)
(***************************************************************************)
\* validateProductOwnership: NotFound, OrganizationMismatch or ok
validateProductOwnership(p, org) ==
    IF p \notin Products THEN "NotFound"
    ELSE IF ProductOrg(p) # org THEN "OrganizationMismatch"
    ELSE "ok"

\* validateWarehouseOwnership: NotFound, OrganizationMismatch or ok
validateWarehouseOwnership(w, org) ==
    IF w \notin Warehouses THEN "NotFound"
    ELSE IF WarehouseOrg(w) # org THEN "OrganizationMismatch"
    ELSE "ok"

\* a sufficiency check that lets a request one unit too large through
InsufficientOffByOne(available, requested) == available < requested - 1

\* the guard of decreaseStock / reserveStock: existingStock.quantity < params.quantity
Insufficient(available, requested) == available < requested

\* a threshold that is only breached below, not at, minQuantity
LowStockNeededBelow(newQuantity, minQuantity) ==
    minQuantity > 0 /\ newQuantity < minQuantity

\* the condition of emitLowStockEventIfNeeded
LowStockNeeded(newQuantity, minQuantity) ==
    minQuantity > 0 /\ newQuantity <= minQuantity

Abs(n) == IF n < 0 THEN -n ELSE n

StockRow(p, w) == <<"stock", p, w>>
SaleRow(s) == <<"sale", s, "">>
OrderRow(o) == <<"order", o, "">>
ProductRow(p) == <<"product", p, "">>
InvoiceRow(no) == <<"invoice", no, "">>

LowStockKey(p, w, minute) == <<"low_stock", p, w, minute>>
SaleApproveKey(s) == <<"sale:approve", s, "", 0>>
OrderApproveKey(o) == <<"order:approve", o, "", 0>>

Movement(org, p, w, type, q, ref) ==
    [org |-> org, p |-> p, w |-> w, type |-> type, q |-> q, ref |-> ref]

\* outbox_events.max_retries DEFAULT 3
MaxRetries == 3

\* publishEvent: the row it inserts (status and retry_count by their defaults)
Event(type, key, ref, cur, min) ==
    [type |-> type, key |-> key, ref |-> ref, cur |-> cur, min |-> min,
     status |-> "PENDING", retry |-> 0, max |-> MaxRetries]

(***************************************************************************)
(* Transactions.                                                           *)
(***************************************************************************)
ZeroDelta == [pr \in Pairs |-> 0]
NoSet == [pr \in Pairs |-> NoRow]
ZeroCur == [p \in Products |-> 0]

IdleTx ==
    [op |-> "idle", pc |-> "idle", org |-> "", p |-> "", w |-> "", q |-> 0,
     s |-> "", items |-> <<>>, idx |-> 0, prev |-> 0, minq |-> 0,
     existing |-> FALSE, held |-> {},
     pMoves |-> <<>>, pDelta |-> ZeroDelta, pSet |-> NoSet, pNew |-> {},
     pSale |-> NoSale, pEv |-> <<>>, out |-> "", a |-> 0, b |-> 0,
     o |-> "", last |-> NoNumber, no |-> NoNumber, pCur |-> ZeroCur,
     pOrder |-> NoSale, pInv |-> <<>>, pNewSale |-> FALSE, pNewOrder |-> FALSE,
     upd |-> {}, share |-> {}, wait |-> <<>>]

\* the operation has returned or thrown: what its caller sees
Outcome(op, kind, a, b) ==
    [IdleTx EXCEPT !.op = op, !.pc = "done", !.out = kind, !.a = a, !.b = b]

\* a locking read without FOR UPDATE: it never waits
LockFreeNoWait(r, t) == TRUE

\* SELECT ... FOR UPDATE can take row r: no other transaction holds any lock on it
LockFree(r, t) ==
    \A u \in Tx \ {t} : r \notin tx[u].held /\ r \notin tx[u].upd /\ r \notin tx[u].share

\* an UPDATE can take row r (FOR NO KEY UPDATE): key-share holders do not block it
UpdateFree(r, t) == \A u \in Tx \ {t} : r \notin tx[u].held /\ r \notin tx[u].upd

\* an INSERT referencing row r can take its FOR KEY SHARE lock
ShareFree(r, t) == \A u \in Tx \ {t} : r \notin tx[u].held

\* the balance transaction t reads for a row it has locked: committed + own writes
View(t, pr) ==
    IF tx[t].pSet[pr] # NoRow THEN tx[t].pSet[pr] ELSE stock[pr] + tx[t].pDelta[pr]

KeysOf(evs) == {evs[i].key : i \in 1..Len(evs)}

UNCHANGED_DB ==
    UNCHANGED <<stock, minQ, moves, sales, saleNo, outbox, orders, currentStock,
                invoices, catalog, orderNo, lines>>

\* an outcome is handed to its caller before anything else happens
Quiet == \A u \in Tx : tx[u].pc # "done"

\* the callback run without a transaction around it: what it wrote before it
\* threw stays in the database
FailNoRollback(t, kind, a, b) ==
    LET r == tx[t] IN
    /\ Quiet
    /\ tx' = [tx EXCEPT ![t] = Outcome(r.op, kind, a, b)]
    /\ stock' = [pr \in Pairs |->
                    IF pr \in r.pNew THEN r.pDelta[pr]
                    ELSE IF stock[pr] = NoRow THEN NoRow
                    ELSE IF r.pSet[pr] # NoRow THEN r.pSet[pr]
                    ELSE stock[pr] + r.pDelta[pr]]
    /\ moves' = moves \o r.pMoves
    /\ UNCHANGED <<minQ, sales, saleNo, outbox, orders, currentStock, invoices,
                   catalog, orderNo, lines>>
    /\ UNCHANGED <<now, nOps, wk, hist, proc>>

\* the transaction throws: Prisma rolls it back, its writes and locks are gone
Fail(t, kind, a, b) ==
    /\ Quiet
    /\ tx' = [tx EXCEPT ![t] = Outcome(tx[t].op, kind, a, b)]
    /\ UNCHANGED_DB
    /\ UNCHANGED <<now, nOps, wk, hist, proc>>

\* a step inside the transaction: only its own record changes
Step(t, rec) ==
    /\ Quiet
    /\ tx' = [tx EXCEPT ![t] = rec]
    /\ UNCHANGED_DB
    /\ UNCHANGED <<now, nOps, wk, hist, proc>>

\* an operation that throws before it has locked or written anything: the
\* argument check ahead of the transaction, or the ownership reads that open it
Reject(t, op, kind) ==
    /\ tx' = [tx EXCEPT ![t] = Outcome(op, kind, 0, 0)]
    /\ UNCHANGED_DB
    /\ UNCHANGED <<now, nOps, wk, hist, proc>>

\* a new operation takes the first free transaction slot
CanBegin(t) ==
    /\ Quiet
    /\ tx[t].op = "idle"
    /\ nOps + Cardinality({u \in Tx : tx[u].pc \notin {"idle", "done"}}) < MaxOps
    /\ t = "t2" => tx["t1"].op # "idle"

(***************************************************************************)
(* increaseStock / decreaseStock / adjustStock                             *)
(***************************************************************************)
\* the three mutations open alike: argument check, then, as the first reads of
\* the transaction, org isolation (steps 1-2)
BeginMutation(t, op, org, p, w, q, bad) ==
    /\ CanBegin(t)
    /\ IF bad THEN Reject(t, op, "ValidationError")
       ELSE IF validateProductOwnership(p, org) # "ok"
       THEN Reject(t, op, validateProductOwnership(p, org))
       ELSE IF validateWarehouseOwnership(w, org) # "ok"
       THEN Reject(t, op, validateWarehouseOwnership(w, org))
       ELSE /\ tx' = [tx EXCEPT ![t] =
                        [IdleTx EXCEPT !.op = op, !.pc = "lock", !.org = org,
                                       !.p = p, !.w = w, !.q = q]]
            /\ UNCHANGED_DB
            /\ UNCHANGED <<now, nOps, wk, hist, proc>>

BeginIncrease(t) ==
    \E org \in Orgs, p \in ArgProducts, w \in ArgWarehouses, q \in 0..MaxQty :
        BeginMutation(t, "increaseStock", org, p, w, q, q <= 0)

BeginDecrease(t) ==
    \E org \in Orgs, p \in ArgProducts, w \in ArgWarehouses, q \in 0..MaxQty :
        BeginMutation(t, "decreaseStock", org, p, w, q, q <= 0)

BeginAdjust(t) ==
    \E org \in Orgs, p \in ArgProducts, w \in ArgWarehouses, q \in (-1)..MaxQty :
        BeginMutation(t, "adjustStock", org, p, w, q, q < 0)

\* increaseStock that goes to the balance write without the movement
IncreaseLockOnly(t) ==
    LET r == tx[t] pr == <<r.p, r.w>> IN
    /\ r.op = "increaseStock" /\ r.pc = "lock"
    /\ stock[pr] # NoRow
    /\ LockFree(StockRow(r.p, r.w), t)
    /\ Step(t, [r EXCEPT !.pc = "bal", !.existing = TRUE, !.prev = stock[pr],
                         !.held = @ \cup {StockRow(r.p, r.w)}])

\* increaseStock steps 3-4: lock the row if there is one, insert the IN movement
IncreaseLock(t) ==
    LET r == tx[t] pr == <<r.p, r.w>> IN
    /\ r.op = "increaseStock" /\ r.pc = "lock"
    /\ IF stock[pr] = NoRow
       THEN /\ ShareFree(ProductRow(r.p), t)
            /\ Step(t, [r EXCEPT !.pc = "bal", !.existing = FALSE, !.prev = 0,
                           !.share = @ \cup {ProductRow(r.p)},
                           !.pMoves = Append(@, Movement(r.org, r.p, r.w, "IN", r.q, ""))])
       ELSE /\ LockFree(StockRow(r.p, r.w), t)
            /\ ShareFree(ProductRow(r.p), t)
            /\ Step(t, [r EXCEPT !.pc = "bal", !.existing = TRUE, !.prev = stock[pr],
                           !.held = @ \cup {StockRow(r.p, r.w)},
                           !.share = @ \cup {ProductRow(r.p)},
                           !.pMoves = Append(@, Movement(r.org, r.p, r.w, "IN", r.q, ""))])

\* increaseStock step 5: increment the row, or create it with the given quantity
IncreaseBalance(t) ==
    LET r == tx[t] pr == <<r.p, r.w>> IN
    /\ r.op = "increaseStock" /\ r.pc = "bal"
    /\ IF r.existing
       THEN Step(t, [r EXCEPT !.pc = "commit", !.pDelta[pr] = @ + r.q])
       ELSE IF stock[pr] # NoRow
       THEN Fail(t, "UniqueViolation", 0, 0)
       ELSE /\ \A u \in Tx \ {t} : pr \notin tx[u].pNew
            /\ Step(t, [r EXCEPT !.pc = "commit", !.pNew = @ \cup {pr},
                                 !.pDelta[pr] = r.q])

\* a decrease that takes what is there when the balance is too small
DecreaseLockPartial(t) ==
    LET r == tx[t] pr == <<r.p, r.w>> IN
    /\ r.op = "decreaseStock" /\ r.pc = "lock"
    /\ stock[pr] # NoRow
    /\ LockFree(StockRow(r.p, r.w), t)
    /\ Step(t, [r EXCEPT !.pc = "bal", !.prev = stock[pr], !.minq = minQ[pr],
                         !.q = IF stock[pr] < r.q THEN stock[pr] ELSE r.q,
                         !.held = @ \cup {StockRow(r.p, r.w)},
                         !.pMoves = Append(@, Movement(r.org, r.p, r.w, "OUT",
                                             IF stock[pr] < r.q THEN stock[pr] ELSE r.q,
                                             ""))])

\* decreaseStock steps 3-5: lock, sufficiency check, insert the OUT movement
DecreaseLock(t) ==
    LET r == tx[t] pr == <<r.p, r.w>> IN
    /\ r.op = "decreaseStock" /\ r.pc = "lock"
    /\ IF stock[pr] = NoRow THEN Fail(t, "NotFound", 0, 0)
       ELSE /\ LockFree(StockRow(r.p, r.w), t)
            /\ IF Insufficient(stock[pr], r.q)
               THEN Fail(t, "InsufficientStock", stock[pr], r.q)
               ELSE /\ ShareFree(ProductRow(r.p), t)
                    /\ Step(t, [r EXCEPT !.pc = "bal", !.prev = stock[pr],
                               !.minq = minQ[pr],
                               !.held = @ \cup {StockRow(r.p, r.w)},
                               !.share = @ \cup {ProductRow(r.p)},
                               !.pMoves = Append(@, Movement(r.org, r.p, r.w, "OUT", r.q, ""))])

\* decreaseStock step 6: decrement the balance
DecreaseBalance(t) ==
    LET r == tx[t] pr == <<r.p, r.w>> IN
    /\ r.op = "decreaseStock" /\ r.pc = "bal"
    /\ Step(t, [r EXCEPT !.pc = "evt", !.pDelta[pr] = @ - r.q])

\* an adjustStock without the early return on delta = 0
AdjustLockAlways(t) ==
    LET r == tx[t] pr == <<r.p, r.w>> delta == r.q - stock[pr] IN
    /\ r.op = "adjustStock" /\ r.pc = "lock"
    /\ IF stock[pr] = NoRow THEN Fail(t, "NotFound", 0, 0)
       ELSE /\ LockFree(StockRow(r.p, r.w), t)
            /\ ShareFree(ProductRow(r.p), t)
            /\ Step(t, [r EXCEPT !.pc = "bal", !.prev = stock[pr],
                       !.minq = minQ[pr],
                       !.held = @ \cup {StockRow(r.p, r.w)},
                       !.share = @ \cup {ProductRow(r.p)},
                       !.pMoves = Append(@, Movement(r.org, r.p, r.w,
                                           "ADJUSTMENT", Abs(delta), ""))])

\* adjustStock steps 3-4: lock, delta, no-op return or insert the ADJUSTMENT movement
AdjustLock(t) ==
    LET r == tx[t] pr == <<r.p, r.w>> delta == r.q - stock[pr] IN
    /\ r.op = "adjustStock" /\ r.pc = "lock"
    /\ IF stock[pr] = NoRow THEN Fail(t, "NotFound", 0, 0)
       ELSE /\ LockFree(StockRow(r.p, r.w), t)
            /\ IF delta = 0
               THEN Step(t, [r EXCEPT !.pc = "commit", !.prev = stock[pr],
                               !.held = @ \cup {StockRow(r.p, r.w)}])
               ELSE /\ ShareFree(ProductRow(r.p), t)
                    /\ Step(t, [r EXCEPT !.pc = "bal", !.prev = stock[pr],
                               !.minq = minQ[pr],
                               !.held = @ \cup {StockRow(r.p, r.w)},
                               !.share = @ \cup {ProductRow(r.p)},
                               !.pMoves = Append(@, Movement(r.org, r.p, r.w,
                                                   "ADJUSTMENT", Abs(delta), ""))])

\* adjustStock step 5: set the balance to the target
AdjustBalance(t) ==
    LET r == tx[t] pr == <<r.p, r.w>> IN
    /\ r.op = "adjustStock" /\ r.pc = "bal"
    /\ Step(t, [r EXCEPT !.pc = "evt", !.pSet[pr] = r.q])

\* publishEvent: the insert fails on a committed row with the same idempotency
\* key and waits for an uncommitted one
PublishEvent(t, r, ev, next) ==
    IF ev.key \in KeysOf(outbox) THEN Fail(t, "UniqueViolation", 0, 0)
    ELSE /\ \A u \in Tx \ {t} : ev.key \notin KeysOf(tx[u].pEv)
         /\ Step(t, [r EXCEPT !.pc = next, !.pEv = Append(@, ev)])

\* emitLowStockEventIfNeeded, the last step of decreaseStock and adjustStock
NewQuantity(r) == IF r.op = "adjustStock" THEN r.q ELSE r.prev - r.q

LowStockEvent(t) ==
    LET r == tx[t] IN
    /\ r.op \in {"decreaseStock", "adjustStock"} /\ r.pc = "evt"
    /\ IF LowStockNeeded(NewQuantity(r), r.minq)
       THEN PublishEvent(t, r, Event("LOW_STOCK", LowStockKey(r.p, r.w, now), r.p,
                                     NewQuantity(r), r.minq), "commit")
       ELSE Step(t, [r EXCEPT !.pc = "commit"])

(***************************************************************************)
(* approveSale / cancelSale with reserveStock / returnStock                *)
(***************************************************************************)
BeginApproveSale(t) ==
    \E s \in ArgSales, org \in Orgs :
        /\ CanBegin(t)
            /\ tx' = [tx EXCEPT ![t] =
                    [IdleTx EXCEPT !.op = "approveSale", !.pc = "lockSale",
                                   !.s = s, !.org = org]]
        /\ UNCHANGED_DB
        /\ UNCHANGED <<now, nOps, wk, hist, proc>>

BeginCancelSale(t) ==
    \E s \in ArgSales, org \in Orgs :
        /\ CanBegin(t)
            /\ tx' = [tx EXCEPT ![t] =
                    [IdleTx EXCEPT !.op = "cancelSale", !.pc = "lockSale",
                                   !.s = s, !.org = org]]
        /\ UNCHANGED_DB
        /\ UNCHANGED <<now, nOps, wk, hist, proc>>

\* returnStock called on its own inside a transaction, for one item
BeginReturnStock(t) ==
    \E org \in Orgs, p \in ArgProducts, w \in ArgWarehouses, q \in {1} :
        /\ CanBegin(t)
            /\ tx' = [tx EXCEPT ![t] =
                    [IdleTx EXCEPT !.op = "returnStock", !.pc = "cMov", !.org = org,
                                   !.w = w, !.items = <<Item(p, q)>>, !.idx = 1]]
        /\ UNCHANGED_DB
        /\ UNCHANGED <<now, nOps, wk, hist, proc>>

\* the status a sale must have for the operation, and the one it gets
\* a status check that always asks for DRAFT
RequiredStatusDraft(op) == "DRAFT"

RequiredStatus(op) ==
    IF op \in {"approveSale", "approveOrder"} THEN "DRAFT" ELSE "APPROVED"
TargetStatus(op) ==
    IF op \in {"approveSale", "approveOrder"} THEN "APPROVED" ELSE "CANCELLED"

\* approveSale / cancelSale with the status check ahead of the organization
\* check
LockSaleStatusFirst(t) ==
    LET r == tx[t] IN
    /\ r.op \in {"approveSale", "cancelSale"} /\ r.pc = "lockSale"
    /\ IF r.s \notin SaleIds \/ sales[r.s] = NoSale THEN Fail(t, "NotFound", 0, 0)
       ELSE /\ LockFree(SaleRow(r.s), t)
            /\ IF sales[r.s] # RequiredStatus(r.op)
               THEN Fail(t, "InvalidStatusTransition", 0, 0)
               ELSE IF SaleOrg(r.s) # r.org THEN Fail(t, "OrganizationMismatch", 0, 0)
               ELSE Step(t, [r EXCEPT
                        !.pc = IF r.op = "approveSale" THEN "rLock" ELSE "cMov",
                        !.org = SaleOrg(r.s), !.w = SaleWh(r.s),
                        !.items = lines[r.s], !.idx = 1,
                        !.held = @ \cup {SaleRow(r.s)}])

\* approveSale / cancelSale reading the header without FOR UPDATE
LockSaleUnlocked(t) ==
    LET r == tx[t] IN
    /\ r.op \in {"approveSale", "cancelSale"} /\ r.pc = "lockSale"
    /\ IF r.s \notin SaleIds \/ sales[r.s] = NoSale THEN Fail(t, "NotFound", 0, 0)
       ELSE IF SaleOrg(r.s) # r.org THEN Fail(t, "OrganizationMismatch", 0, 0)
       ELSE IF sales[r.s] # RequiredStatus(r.op)
       THEN Fail(t, "InvalidStatusTransition", 0, 0)
       ELSE Step(t, [r EXCEPT
                !.pc = IF r.op = "approveSale" THEN "rLock" ELSE "cMov",
                !.org = SaleOrg(r.s), !.w = SaleWh(r.s),
                !.items = lines[r.s], !.idx = 1])

\* approveSale / cancelSale steps 1-4: lock the sale row, org check, status
\* check, read the items; approveSale then enters reserveStock, which
\* validates the warehouse once
LockSale(t) ==
    LET r == tx[t] IN
    /\ r.op \in {"approveSale", "cancelSale"} /\ r.pc = "lockSale"
    /\ IF r.s \notin SaleIds \/ sales[r.s] = NoSale THEN Fail(t, "NotFound", 0, 0)
       ELSE /\ LockFree(SaleRow(r.s), t)
            /\ IF SaleOrg(r.s) # r.org THEN Fail(t, "OrganizationMismatch", 0, 0)
               ELSE IF sales[r.s] # RequiredStatus(r.op)
               THEN Fail(t, "InvalidStatusTransition", 0, 0)
               ELSE IF r.op = "approveSale"
                       /\ validateWarehouseOwnership(SaleWh(r.s), SaleOrg(r.s)) # "ok"
               THEN Fail(t, validateWarehouseOwnership(SaleWh(r.s), SaleOrg(r.s)), 0, 0)
               ELSE Step(t, [r EXCEPT
                        !.pc = IF r.op = "approveSale" THEN "rLock" ELSE "cMov",
                        !.org = SaleOrg(r.s), !.w = SaleWh(r.s),
                        !.items = lines[r.s], !.idx = 1,
                        !.held = @ \cup {SaleRow(r.s)}])

\* reserveStock, one item: product ownership, lock the stock row, sufficiency
\* check, insert the OUT movement
ReserveLock(t) ==
    LET r == tx[t] it == r.items[r.idx] pr == <<it.p, r.w>> IN
    /\ r.op = "approveSale" /\ r.pc = "rLock"
    /\ IF validateProductOwnership(it.p, r.org) # "ok"
       THEN Fail(t, validateProductOwnership(it.p, r.org), 0, 0)
       ELSE IF stock[pr] = NoRow THEN Fail(t, "NotFound", 0, 0)
       ELSE /\ LockFree(StockRow(it.p, r.w), t)
            /\ IF Insufficient(View(t, pr), it.q)
               THEN Fail(t, "InsufficientStock", View(t, pr), it.q)
               ELSE /\ ShareFree(ProductRow(it.p), t)
                    /\ Step(t, [r EXCEPT !.pc = "rBal",
                               !.held = @ \cup {StockRow(it.p, r.w)},
                               !.share = @ \cup {ProductRow(it.p)},
                               !.pMoves = Append(@, Movement(r.org, it.p, r.w, "OUT",
                                                            it.q, r.s))])

\* a reserveStock that gives the row free once its balance is written
ReserveBalanceReleasing(t) ==
    LET r == tx[t] it == r.items[r.idx] pr == <<it.p, r.w>> IN
    /\ r.op = "approveSale" /\ r.pc = "rBal"
    /\ Step(t, [r EXCEPT !.pDelta[pr] = @ - it.q, !.idx = @ + 1,
                         !.held = @ \ {StockRow(it.p, r.w)},
                         !.pc = IF r.idx = Len(r.items) THEN "status" ELSE "rLock"])

\* reserveStock, one item: decrement the balance, go to the next item
ReserveBalance(t) ==
    LET r == tx[t] it == r.items[r.idx] pr == <<it.p, r.w>> IN
    /\ r.op = "approveSale" /\ r.pc = "rBal"
    /\ Step(t, [r EXCEPT !.pDelta[pr] = @ - it.q, !.idx = @ + 1,
                         !.pc = IF r.idx = Len(r.items) THEN "status" ELSE "rLock"])

\* returnStock, one item: insert the IN movement (no ownership check, no lock)
ReturnMovement(t) ==
    LET r == tx[t] it == r.items[r.idx] IN
    /\ r.op \in {"cancelSale", "returnStock"} /\ r.pc = "cMov"
    /\ IF it.p \notin Products \/ r.w \notin Warehouses
       THEN Fail(t, "ForeignKeyViolation", 0, 0)
       ELSE /\ ShareFree(ProductRow(it.p), t)
            /\ Step(t, [r EXCEPT !.pc = "cBal",
                           !.share = @ \cup {ProductRow(it.p)},
                           !.pMoves = Append(@, Movement(r.org, it.p, r.w, "IN", it.q, r.s))])

\* a returnStock that gives a product back once, however many items name it
ReturnBalanceOnce(t) ==
    LET r == tx[t] it == r.items[r.idx] pr == <<it.p, r.w>> IN
    /\ r.op \in {"cancelSale", "returnStock"} /\ r.pc = "cBal"
    /\ stock[pr] # NoRow
    /\ LockFree(StockRow(it.p, r.w), t)
    /\ Step(t, [r EXCEPT !.pDelta[pr] = IF @ > 0 THEN @ ELSE it.q, !.idx = @ + 1,
                         !.held = @ \cup {StockRow(it.p, r.w)},
                         !.pc = IF r.idx < Len(r.items) THEN "cMov"
                                ELSE IF r.op = "cancelSale" THEN "status"
                                ELSE "commit"])

\* returnStock, one item: increment the balance (the UPDATE locks the row)
ReturnBalance(t) ==
    LET r == tx[t] it == r.items[r.idx] pr == <<it.p, r.w>> IN
    /\ r.op \in {"cancelSale", "returnStock"} /\ r.pc = "cBal"
    /\ IF stock[pr] = NoRow THEN Fail(t, "RecordNotFound", 0, 0)
       ELSE /\ LockFree(StockRow(it.p, r.w), t)
            /\ Step(t, [r EXCEPT !.pDelta[pr] = @ + it.q, !.idx = @ + 1,
                           !.held = @ \cup {StockRow(it.p, r.w)},
                           !.pc = IF r.idx < Len(r.items) THEN "cMov"
                                  ELSE IF r.op = "cancelSale" THEN "status"
                                  ELSE "commit"])

\* sale.update: the new status (with approvedAt / cancelledAt)
SaleStatus(t) ==
    LET r == tx[t] IN
    /\ r.op \in {"approveSale", "cancelSale"} /\ r.pc = "status"
    /\ Step(t, [r EXCEPT !.pSale = TargetStatus(r.op),
                         !.pc = IF r.op = "approveSale" THEN "evt" ELSE "commit"])

\* an approveSale that commits without publishing
SaleEventSkipped(t) ==
    LET r == tx[t] IN
    /\ r.op = "approveSale" /\ r.pc = "evt"
    /\ Step(t, [r EXCEPT !.pc = "commit"])

\* approveSale step 7: publish SALE_APPROVED
SaleEvent(t) ==
    LET r == tx[t] IN
    /\ r.op = "approveSale" /\ r.pc = "evt"
    /\ PublishEvent(t, r, Event("SALE_APPROVED", SaleApproveKey(r.s), r.s, 0, 0), "commit")

(***************************************************************************)
(* generateSequentialNumber and createSale                                 *)
(***************************************************************************)
\* the rows of the table an operation numbers its document in, each as
\* <<row lock, number>>; only committed rows are visible to the statement
NumberedRows(op) ==
    IF op = "createSale"
    THEN {<<SaleRow(s), saleNo[s]>> : s \in {x \in SaleRows : sales[x] # NoSale}}
    ELSE IF op = "createOrder"
    THEN {<<OrderRow(o), orderNo[o]>> : o \in {x \in OrderRows : orders[x] # NoSale}}
    ELSE {<<InvoiceRow(invoices[i].no), invoices[i].no>> : i \in 1..Len(invoices)}

\* ORDER BY number DESC LIMIT 1
LastRow(rows) == CHOOSE x \in rows : \A y \in rows : y = x \/ StrLess(y[2], x[2])

NumberingOps == {"createSale", "createOrder", "createInvoice", "handleOrderApproved"}

\* createSale opens its transaction; the id is one no sale has yet
BeginCreateSale(t) ==
    \E items \in ItemLists :
        /\ CanBegin(t)
        /\ \E s \in SaleRows : sales[s] = NoSale
        /\ tx' = [tx EXCEPT ![t] = [IdleTx EXCEPT !.op = "createSale", !.pc = "seq",
                                                  !.items = items]]
        /\ UNCHANGED_DB
        /\ UNCHANGED <<now, nOps, wk, hist, proc>>

\* createOrder opens its transaction; the id is one no order has yet
BeginCreateOrder(t) ==
    \E items \in ItemLists :
        /\ CanBegin(t)
        /\ \E o \in OrderRows : orders[o] = NoSale
        /\ tx' = [tx EXCEPT ![t] = [IdleTx EXCEPT !.op = "createOrder", !.pc = "seq",
                                                  !.items = items]]
        /\ UNCHANGED_DB
        /\ UNCHANGED <<now, nOps, wk, hist, proc>>

\* generateSequentialNumber: SELECT ... ORDER BY number DESC LIMIT 1 FOR UPDATE.
\* With no row it locks nothing and returns 00001; a last row locked by
\* another transaction makes the statement wait for that row
SeqSelect(t) ==
    LET r == tx[t] rows == NumberedRows(r.op) IN
    /\ r.op \in NumberingOps /\ r.pc = "seq"
    /\ IF rows = {}
       THEN Step(t, [r EXCEPT !.pc = "ins", !.no = NextNumber(NoNumber)])
       ELSE LET x == LastRow(rows) IN
            IF LockFree(x[1], t)
            THEN Step(t, [r EXCEPT !.pc = "ins", !.held = @ \cup {x[1]},
                                   !.last = x[2], !.no = NextNumber(x[2])])
            ELSE Step(t, [r EXCEPT !.pc = "seqWait", !.wait = x[1], !.last = x[2]])

\* the lock is released: the waiting statement re-checks the row it waited
\* for, locks it and returns it; rows committed meanwhile are not seen
SeqWake(t) ==
    LET r == tx[t] IN
    /\ r.op \in NumberingOps /\ r.pc = "seqWait"
    /\ LockFree(r.wait, t)
    /\ Step(t, [r EXCEPT !.pc = "ins", !.held = @ \cup {r.wait},
                         !.no = NextNumber(r.last)])

\* the products the items of a nested create reference
ItemProducts(items) == {items[i].p : i \in 1..Len(items)}

\* a create that also takes its first item out of the stock of the warehouse
SaleInsertReserving(t) ==
    LET r == tx[t]
        free == {s \in SaleRows : sales[s] = NoSale}
    IN
    /\ r.op = "createSale" /\ r.pc = "ins"
    /\ ItemProducts(r.items) \subseteq Products
    /\ free # {}
    /\ Step(t, [r EXCEPT !.pc = "commit", !.pNewSale = TRUE,
                         !.s = CHOOSE s \in free : TRUE,
                         !.pDelta[<<r.items[1].p, "w1">>] = -r.items[1].q,
                         !.pMoves = <<Movement("orgA", r.items[1].p, "w1", "OUT",
                                               r.items[1].q, "")>>])

\* sale.create with its nested items: the unique index on sale_number refuses
\* a committed duplicate and waits for an uncommitted one; the items' foreign
\* key refuses a product that does not exist and key-share locks the others
SaleInsert(t) ==
    LET r == tx[t]
        free == {s \in SaleRows : sales[s] = NoSale
                    /\ \A u \in Tx \ {t} : ~(tx[u].pNewSale /\ tx[u].s = s)}
    IN
    /\ r.op = "createSale" /\ r.pc = "ins"
    /\ IF \E s \in SaleRows : sales[s] # NoSale /\ saleNo[s] = r.no
       THEN Fail(t, "UniqueViolation", 0, 0)
       ELSE /\ \A u \in Tx \ {t} : ~(tx[u].pNewSale /\ tx[u].no = r.no)
            /\ free # {}
            /\ IF ~(ItemProducts(r.items) \subseteq Products)
               THEN Fail(t, "ForeignKeyViolation", 0, 0)
               ELSE /\ \A p \in ItemProducts(r.items) : ShareFree(ProductRow(p), t)
                    /\ Step(t, [r EXCEPT !.pc = "commit", !.pNewSale = TRUE,
                                  !.share = @ \cup {ProductRow(p) : p \in ItemProducts(r.items)},
                                  !.s = CHOOSE s \in free : TRUE])

\* order.create with its nested items: as sale.create, on orders.order_number
OrderInsert(t) ==
    LET r == tx[t]
        free == {o \in OrderRows : orders[o] = NoSale
                    /\ \A u \in Tx \ {t} : ~(tx[u].pNewOrder /\ tx[u].o = o)}
    IN
    /\ r.op = "createOrder" /\ r.pc = "ins"
    /\ IF \E o \in OrderRows : orders[o] # NoSale /\ orderNo[o] = r.no
       THEN Fail(t, "UniqueViolation", 0, 0)
       ELSE /\ \A u \in Tx \ {t} : ~(tx[u].pNewOrder /\ tx[u].no = r.no)
            /\ free # {}
            /\ IF ~(ItemProducts(r.items) \subseteq Products)
               THEN Fail(t, "ForeignKeyViolation", 0, 0)
               ELSE /\ \A p \in ItemProducts(r.items) : ShareFree(ProductRow(p), t)
                    /\ Step(t, [r EXCEPT !.pc = "commit", !.pNewOrder = TRUE,
                                  !.share = @ \cup {ProductRow(p) : p \in ItemProducts(r.items)},
                                  !.o = CHOOSE o \in free : TRUE])

(***************************************************************************)
(* approveOrder / cancelOrder with reserveStockForOrder /                  *)
(* returnStockForCancel of the order module's stock service                *)
(***************************************************************************)
BeginApproveOrder(t) ==
    \E o \in ArgOrders :
        /\ CanBegin(t)
        /\ tx' = [tx EXCEPT ![t] =
                    [IdleTx EXCEPT !.op = "approveOrder", !.pc = "lockOrder", !.o = o]]
        /\ UNCHANGED_DB
        /\ UNCHANGED <<now, nOps, wk, hist, proc>>

BeginCancelOrder(t) ==
    \E o \in ArgOrders :
        /\ CanBegin(t)
        /\ tx' = [tx EXCEPT ![t] =
                    [IdleTx EXCEPT !.op = "cancelOrder", !.pc = "lockOrder", !.o = o]]
        /\ UNCHANGED_DB
        /\ UNCHANGED <<now, nOps, wk, hist, proc>>

\* lockOrderForUpdate, the status check and the read of the items; the order
\* functions take no organization
LockOrder(t) ==
    LET r == tx[t] IN
    /\ r.op \in {"approveOrder", "cancelOrder"} /\ r.pc = "lockOrder"
    /\ IF r.o \notin OrderIds THEN Fail(t, "NotFound", 0, 0)
       ELSE /\ LockFree(OrderRow(r.o), t)
            /\ IF orders[r.o] # RequiredStatus(r.op)
               THEN Fail(t, "InvalidStatusTransition", 0, 0)
               ELSE Step(t, [r EXCEPT
                        !.pc = IF r.op = "approveOrder" THEN "oLock" ELSE "oRet",
                        !.items = OrderItems(r.o), !.idx = 1,
                        !.held = @ \cup {OrderRow(r.o)}])

\* the product balance transaction t reads: committed + own writes
ViewCur(t, p) == currentStock[p] + tx[t].pCur[p]

\* reserveStockForOrder, one item: lockProductForUpdate, sufficiency check,
\* decrement of products.current_stock
OrderReserveLock(t) ==
    LET r == tx[t] it == r.items[r.idx] IN
    /\ r.op = "approveOrder" /\ r.pc = "oLock"
    /\ IF it.p \notin Products THEN Fail(t, "NotFound", 0, 0)
       ELSE /\ LockFree(ProductRow(it.p), t)
            /\ IF Insufficient(ViewCur(t, it.p), it.q)
               THEN Fail(t, "InsufficientStock", ViewCur(t, it.p), it.q)
               ELSE Step(t, [r EXCEPT !.pc = "oMov",
                               !.held = @ \cup {ProductRow(it.p)},
                               !.pCur[it.p] = @ - it.q])

\* reserveStockForOrder, one item: the ORDER_OUT movement, then the next item
OrderReserveMovement(t) ==
    LET r == tx[t] it == r.items[r.idx] IN
    /\ r.op = "approveOrder" /\ r.pc = "oMov"
    /\ Step(t, [r EXCEPT !.idx = @ + 1,
                  !.pc = IF r.idx = Len(r.items) THEN "oStatus" ELSE "oLock",
                  !.pMoves = Append(@, Movement("", it.p, "", "ORDER_OUT", it.q, r.o))])

\* returnStockForCancel, one item: increment of products.current_stock (the
\* UPDATE locks the product row)
OrderReturnBalance(t) ==
    LET r == tx[t] it == r.items[r.idx] IN
    /\ r.op = "cancelOrder" /\ r.pc = "oRet"
    /\ UpdateFree(ProductRow(it.p), t)
    /\ Step(t, [r EXCEPT !.pc = "oRetMov", !.upd = @ \cup {ProductRow(it.p)},
                         !.pCur[it.p] = @ + it.q])

\* returnStockForCancel, one item: the CANCEL_IN movement, then the next item
OrderReturnMovement(t) ==
    LET r == tx[t] it == r.items[r.idx] IN
    /\ r.op = "cancelOrder" /\ r.pc = "oRetMov"
    /\ ShareFree(ProductRow(it.p), t)
    /\ Step(t, [r EXCEPT !.idx = @ + 1,
                  !.pc = IF r.idx = Len(r.items) THEN "oStatus" ELSE "oRet",
                  !.share = @ \cup {ProductRow(it.p)},
                  !.pMoves = Append(@, Movement("", it.p, "", "CANCEL_IN", it.q, r.o))])

\* order.update: the new status (with approvedAt / cancelledAt)
OrderStatus(t) ==
    LET r == tx[t] IN
    /\ r.op \in {"approveOrder", "cancelOrder"} /\ r.pc = "oStatus"
    /\ Step(t, [r EXCEPT !.pOrder = TargetStatus(r.op),
                         !.pc = IF r.op = "approveOrder" THEN "oEvt" ELSE "commit"])

\* approveOrder: publish ORDER_APPROVED
OrderEvent(t) ==
    LET r == tx[t] IN
    /\ r.op = "approveOrder" /\ r.pc = "oEvt"
    /\ PublishEvent(t, r, Event("ORDER_APPROVED", OrderApproveKey(r.o), r.o, 0, 0),
                    "commit")

(***************************************************************************)
(* createInvoice and the ORDER_APPROVED handler                            *)
(***************************************************************************)
\* a handler that lets every error of createInvoice through
HandlerRethrows(op, kind) == kind

\* handleOrderApproved: a DuplicateInvoiceError of createInvoice is caught and
\* counts as success, every other error is thrown again
HandlerResult(op, kind) ==
    IF op = "handleOrderApproved" /\ kind = "DuplicateInvoice" THEN "ok" ELSE kind

BeginCreateInvoice(t) ==
    \E o \in ArgOrders :
        /\ CanBegin(t)
        /\ tx' = [tx EXCEPT ![t] =
                    [IdleTx EXCEPT !.op = "createInvoice", !.pc = "iRead", !.o = o]]
        /\ UNCHANGED_DB
        /\ UNCHANGED <<now, nOps, wk, hist, proc>>

\* handleOutboxEvent on a committed event: ORDER_APPROVED calls createInvoice
\* for the order of the payload, the other types only log
HandleOutboxEvent(t) ==
    \E i \in 1..Len(outbox) :
        /\ CanBegin(t)
        /\ tx' = [tx EXCEPT ![t] =
                    IF outbox[i].type = "ORDER_APPROVED"
                    THEN [IdleTx EXCEPT !.op = "handleOrderApproved", !.pc = "iRead",
                                        !.o = outbox[i].ref]
                    ELSE Outcome("handleOutboxEvent", "ok", 0, 0)]
        /\ UNCHANGED_DB
        /\ UNCHANGED <<now, nOps, wk, hist, proc>>

InvoicesOf(o) == {i \in 1..Len(invoices) : invoices[i].order = o}

\* createInvoice: order.findUnique with its invoices (a plain read, no lock),
\* then the three checks
InvoiceRead(t) ==
    LET r == tx[t] IN
    /\ r.op \in {"createInvoice", "handleOrderApproved"} /\ r.pc = "iRead"
    /\ IF r.o \notin OrderIds THEN Fail(t, HandlerResult(r.op, "NotFound"), 0, 0)
       ELSE IF orders[r.o] # "APPROVED"
       THEN Fail(t, HandlerResult(r.op, "InvalidStatusTransition"), 0, 0)
       ELSE IF InvoicesOf(r.o) # {}
       THEN Fail(t, HandlerResult(r.op, "DuplicateInvoice"), 1, 0)
       ELSE Step(t, [r EXCEPT !.pc = "seq"])

\* invoice.create: the foreign key takes a key-share lock on the order row; the
\* unique index on invoice_number refuses a committed duplicate and waits for
\* an uncommitted one
InvoiceInsert(t) ==
    LET r == tx[t] IN
    /\ r.op \in {"createInvoice", "handleOrderApproved"} /\ r.pc = "ins"
    /\ ShareFree(OrderRow(r.o), t)
    /\ IF \E i \in 1..Len(invoices) : invoices[i].no = r.no
       THEN Fail(t, HandlerResult(r.op, "UniqueViolation"), 0, 0)
       ELSE /\ \A u \in Tx \ {t} : \A i \in 1..Len(tx[u].pInv) : tx[u].pInv[i].no # r.no
            /\ Step(t, [r EXCEPT !.pc = "commit",
                                 !.share = @ \cup {OrderRow(r.o)},
                                 !.pInv = <<[order |-> r.o, no |-> r.no]>>])

(***************************************************************************)
(* End of a transaction.                                                   *)
(***************************************************************************)
StockAfter(r, pr) ==
    IF pr \in r.pNew THEN r.pDelta[pr]
    ELSE IF stock[pr] = NoRow THEN NoRow
    ELSE IF r.pSet[pr] # NoRow THEN r.pSet[pr]
    ELSE stock[pr] + r.pDelta[pr]

\* the callback returned: every write of the transaction becomes visible at once
Commit(t) ==
    LET r == tx[t] IN
    /\ r.pc = "commit"
    /\ Quiet
    /\ stock' = [pr \in Pairs |-> StockAfter(r, pr)]
    /\ minQ' = [pr \in Pairs |-> IF pr \in r.pNew THEN 0 ELSE minQ[pr]]
    /\ moves' = moves \o r.pMoves
    /\ sales' = IF r.pNewSale THEN [sales EXCEPT ![r.s] = "DRAFT"]
                 ELSE IF r.pSale = NoSale THEN sales
                 ELSE [sales EXCEPT ![r.s] = r.pSale]
    /\ saleNo' = IF r.pNewSale THEN [saleNo EXCEPT ![r.s] = r.no] ELSE saleNo
    /\ orders' = IF r.pNewOrder THEN [orders EXCEPT ![r.o] = "DRAFT"]
                  ELSE IF r.pOrder = NoSale THEN orders
                  ELSE [orders EXCEPT ![r.o] = r.pOrder]
    /\ orderNo' = IF r.pNewOrder THEN [orderNo EXCEPT ![r.o] = r.no] ELSE orderNo
    /\ lines' = IF r.pNewSale THEN [lines EXCEPT ![r.s] = r.items]
                 ELSE IF r.pNewOrder THEN [lines EXCEPT ![r.o] = r.items]
                 ELSE lines
    /\ currentStock' = [p \in Products |-> currentStock[p] + r.pCur[p]]
    /\ invoices' = invoices \o r.pInv
    /\ outbox' = outbox \o r.pEv
    /\ tx' = [tx EXCEPT ![t] = Outcome(r.op, "ok", r.prev,
                        IF r.p \in Products THEN View(t, <<r.p, r.w>>) ELSE 0)]
    /\ nOps' = nOps + 1
    /\ UNCHANGED <<now, catalog, wk, hist, proc>>

\* withTransaction's timeout: Prisma aborts the transaction wherever it stands
\* (the outcome keeps how many events it had published)
Timeout(t) ==
    /\ tx[t].pc \notin {"idle", "done"}
    /\ Fail(t, "Timeout", Len(tx[t].pEv), 0)

\* the caller has taken the outcome; the slot is free again
Return(t) ==
    /\ tx[t].pc = "done"
    /\ tx' = [tx EXCEPT ![t] = IdleTx]
    /\ UNCHANGED_DB
    /\ UNCHANGED <<now, nOps, wk, hist, proc>>

\* the wall clock enters the next minute bucket
Tick ==
    /\ now < MaxMinute
    /\ now' = now + 1
    /\ UNCHANGED <<stock, minQ, moves, sales, saleNo, outbox, tx, nOps,
                   orders, currentStock, invoices, catalog, wk, hist, orderNo, lines,
                   proc>>

(***************************************************************************)
(* createProduct / createWarehouse: the stock rows opened on creation      *)
(***************************************************************************)
NewProducts == {"p4", "p5"}
NewWarehouses == {"w2", "w3"}
CatalogPairs == ({"p1"} \cup NewProducts) \X ({"w1"} \cup NewWarehouses)

\* one organization with a product, a warehouse and their stock row
SeedCatalog ==
    [products |-> {"p1"}, warehouses |-> {"w1"},
     stocks |-> [pr \in CatalogPairs |-> IF pr = <<"p1", "w1">> THEN 1 ELSE 0]]

\* a findMany at READ COMMITTED: the committed rows of the organization
Visible(kind) == catalog[kind]

\* createProduct: the transaction opens with product.create
BeginCreateProduct(t) ==
    LET free == {p \in NewProducts : p \notin catalog.products
                    /\ \A u \in Tx : ~(tx[u].op = "createProduct" /\ tx[u].p = p)} IN
    /\ CanBegin(t)
    /\ free # {}
    /\ tx' = [tx EXCEPT ![t] = [IdleTx EXCEPT !.op = "createProduct", !.pc = "find",
                                              !.p = CHOOSE p \in free : TRUE]]
    /\ UNCHANGED_DB
    /\ UNCHANGED <<now, nOps, wk, hist, proc>>

\* createWarehouse: the transaction opens with warehouse.create
BeginCreateWarehouse(t) ==
    LET free == {w \in NewWarehouses : w \notin catalog.warehouses
                    /\ \A u \in Tx : ~(tx[u].op = "createWarehouse" /\ tx[u].w = w)} IN
    /\ CanBegin(t)
    /\ free # {}
    /\ tx' = [tx EXCEPT ![t] = [IdleTx EXCEPT !.op = "createWarehouse", !.pc = "find",
                                              !.w = CHOOSE w \in free : TRUE]]
    /\ UNCHANGED_DB
    /\ UNCHANGED <<now, nOps, wk, hist, proc>>

\* warehouse.findMany / product.findMany: the rows to open stock for
ProvisionFind(t) ==
    LET r == tx[t] IN
    /\ r.op \in {"createProduct", "createWarehouse"} /\ r.pc = "find"
    /\ Step(t, [r EXCEPT !.pc = "stocks",
                  !.pNew = IF r.op = "createProduct"
                           THEN {<<r.p, w>> : w \in Visible("warehouses")}
                           ELSE {<<p, r.w>> : p \in Visible("products")}])

\* stock.createMany (skipped for an empty list); the unique index on
\* (product_id, warehouse_id) refuses a pair that has a row
ProvisionStocks(t) ==
    LET r == tx[t] IN
    /\ r.op \in {"createProduct", "createWarehouse"} /\ r.pc = "stocks"
    /\ IF \E pr \in r.pNew : catalog.stocks[pr] > 0
       THEN Fail(t, "UniqueViolation", 0, 0)
       ELSE Step(t, [r EXCEPT !.pc = "provisioned"])

\* the callback returned: the product or warehouse and its stock rows commit
ProvisionCommit(t) ==
    LET r == tx[t] IN
    /\ r.op \in {"createProduct", "createWarehouse"} /\ r.pc = "provisioned"
    /\ Quiet
    /\ catalog' =
          [products |-> IF r.op = "createProduct" THEN catalog.products \cup {r.p}
                        ELSE catalog.products,
           warehouses |-> IF r.op = "createWarehouse" THEN catalog.warehouses \cup {r.w}
                          ELSE catalog.warehouses,
           stocks |-> [pr \in CatalogPairs |->
                          catalog.stocks[pr] + (IF pr \in r.pNew THEN 1 ELSE 0)]]
    /\ tx' = [tx EXCEPT ![t] = Outcome(r.op, "ok", 0, 0)]
    /\ nOps' = nOps + 1
    /\ UNCHANGED <<stock, minQ, moves, sales, saleNo, outbox, orders, currentStock,
                   invoices, now, wk, hist, orderNo, lines, proc>>

(***************************************************************************)
(* The outbox worker: processNextEvent and the loop of startWorker.        *)
(* Worker k runs the whole of processNextEvent in one prisma.$transaction:  *)
(* the row lock of the claim and the PROCESSING mark live in that           *)
(* transaction (wk[k].open, wk[k].st, wk[k].rc) until it commits. The       *)
(* handler runs inside the callback; createInvoice opens its own            *)
(* transaction tx[k] on the global client.                                  *)
(***************************************************************************)
Workers == Tx

IdleWorker == [pc |-> "poll", ev |-> 0, open |-> FALSE, st |-> "", rc |-> 0, res |-> ""]

\* a worker process after startWorker: isRunning set, no signal received
\* (sigAt: where processNextEvent stood when the signal came, kept as history)
Running == [isRunning |-> TRUE, timer |-> FALSE, exited |-> FALSE, sigAt |-> ""]

\* a loop that does not test isRunning
LoopAlways(k) == IdleWorker

\* while (isRunning): the next call of processNextEvent, or the loop is left
Loop(k) == IF proc[k].isRunning THEN IdleWorker ELSE [IdleWorker EXCEPT !.pc = "stopped"]

NoHistory == [disp |-> <<>>, timeouts |-> 0]

\* how often event i was handed to handleOutboxEvent (the history stops
\* counting at DispatchCap, above every count a terminating event can reach)
DispatchCap == MaxRetries + MaxTimeouts + 1

Dispatches(i) == IF i \in 1..Len(hist.disp) THEN hist.disp[i] ELSE 0

Dispatched(i) ==
    [j \in 1..(IF i > Len(hist.disp) THEN i ELSE Len(hist.disp)) |->
        IF j = i /\ Dispatches(j) < DispatchCap THEN Dispatches(j) + 1
        ELSE Dispatches(j)]

\* the row of event i is locked by the open claiming transaction of another worker
RowLocked(i, k) == \E u \in Workers \ {k} : wk[u].open /\ wk[u].ev = i

\* the SELECT without its WHERE clause: rows of every status are candidates
CandidatesAnyStatus(k) == {i \in 1..Len(outbox) : ~RowLocked(i, k)}

\* WHERE status = 'PENDING' ... FOR UPDATE SKIP LOCKED: the PENDING rows no
\* other transaction has locked
Candidates(k) ==
    {i \in 1..Len(outbox) : outbox[i].status = "PENDING" /\ ~RowLocked(i, k)}

\* a SELECT that takes the row created last
LastCandidate(k) ==
    IF Candidates(k) = {} THEN 0
    ELSE CHOOSE i \in Candidates(k) : \A j \in Candidates(k) : i >= j

\* ORDER BY created_at ASC LIMIT 1 (0 when there is no row)
FirstCandidate(k) ==
    IF Candidates(k) = {} THEN 0
    ELSE CHOOSE i \in Candidates(k) : \A j \in Candidates(k) : i <= j

WorkerStep(k, rec) ==
    /\ Quiet
    /\ wk' = [wk EXCEPT ![k] = rec]
    /\ UNCHANGED_DB
    /\ UNCHANGED <<tx, now, nOps, hist, proc>>

\* the callback threw or the commit failed: processNextEvent rejects, the
\* loop logs the error and sleeps
WorkerError(k) == WorkerStep(k, [IdleWorker EXCEPT !.pc = "sleep"])

\* the SELECT of processNextEvent: it locks the first candidate; with no
\* candidate the transaction ends, processNextEvent returns false and the
\* loop sleeps
WorkerSelect(k) ==
    LET i == FirstCandidate(k) IN
    /\ wk[k].pc = "poll"
    /\ (i # 0 => ~RowLocked(i, k))
    /\ IF i = 0 THEN WorkerStep(k, [IdleWorker EXCEPT !.pc = "sleep"])
       ELSE WorkerStep(k, [IdleWorker EXCEPT !.pc = "mark", !.ev = i, !.open = TRUE,
                                             !.st = outbox[i].status,
                                             !.rc = outbox[i].retry])

\* outboxEvent.update to PROCESSING, then await handleOutboxEvent(type,
\* payload): ORDER_APPROVED runs createInvoice in a transaction of its own,
\* the other types only log. On a transaction already closed the update throws.
WorkerDispatch(k) ==
    LET w == wk[k] IN
    /\ w.pc = "mark"
    /\ IF ~w.open THEN WorkerError(k)
       ELSE /\ Quiet
            /\ hist' = [hist EXCEPT !.disp = Dispatched(w.ev)]
            /\ IF outbox[w.ev].type = "ORDER_APPROVED"
               THEN /\ tx[k].op = "idle"
                    /\ tx' = [tx EXCEPT ![k] =
                                [IdleTx EXCEPT !.op = "handleOrderApproved",
                                               !.pc = "iRead", !.o = outbox[w.ev].ref]]
                    /\ wk' = [wk EXCEPT ![k] =
                                [w EXCEPT !.pc = "handler", !.st = "PROCESSING"]]
               ELSE /\ wk' = [wk EXCEPT ![k] =
                                [w EXCEPT !.pc = "finish", !.st = "PROCESSING",
                                          !.res = "ok"]]
                    /\ UNCHANGED tx
            /\ UNCHANGED_DB
            /\ UNCHANGED <<now, nOps, proc>>

\* the handler has returned or thrown
WorkerHandlerReturn(k) ==
    LET w == wk[k] IN
    /\ w.pc = "handler"
    /\ tx[k].pc = "done"
    /\ wk' = [wk EXCEPT ![k] = [w EXCEPT !.pc = "finish", !.res = tx[k].out]]
    /\ tx' = [tx EXCEPT ![k] = IdleTx]
    /\ UNCHANGED_DB
    /\ UNCHANGED <<now, nOps, hist, proc>>

\* a failure that leaves the retry count as it was
RetryNotCounted(retryCount) == retryCount

\* const newRetryCount = event.retry_count + 1
RetryCount(retryCount) == retryCount + 1

\* isFinal = newRetryCount >= event.max_retries; status isFinal ? FAILED : PENDING
FailureStatus(newRetryCount, maxRetries) ==
    IF newRetryCount >= maxRetries THEN "FAILED" ELSE "PENDING"

\* outboxEvent.update after the handler: DONE, or in the catch block the new
\* retry count with FAILED / PENDING; on a transaction already closed both
\* updates throw
WorkerFinish(k) ==
    LET w == wk[k] IN
    /\ w.pc = "finish"
    /\ IF ~w.open THEN WorkerError(k)
       ELSE IF w.res = "ok"
       THEN WorkerStep(k, [w EXCEPT !.pc = "commit", !.st = "DONE"])
       ELSE WorkerStep(k, [w EXCEPT !.pc = "commit",
                             !.rc = RetryCount(w.rc),
                             !.st = FailureStatus(RetryCount(w.rc), outbox[w.ev].max)])

\* the callback returned true: the claiming transaction commits, the loop
\* polls again at once
WorkerCommit(k) ==
    LET w == wk[k] IN
    /\ w.pc = "commit"
    /\ IF ~w.open THEN WorkerError(k)
       ELSE /\ Quiet
            /\ outbox' = [outbox EXCEPT ![w.ev] = [@ EXCEPT !.status = w.st, !.retry = w.rc]]
            /\ wk' = [wk EXCEPT ![k] = Loop(k)]
            /\ UNCHANGED <<stock, minQ, moves, sales, saleNo, orders, currentStock,
                           invoices, catalog, tx, now, nOps, hist, orderNo, lines,
                           proc>>

\* the time limit of prisma.$transaction runs out: the claiming transaction
\* is rolled back (the row lock and the PROCESSING mark are gone) while the
\* callback goes on
WorkerTimeout(k) ==
    LET w == wk[k] IN
    /\ w.open
    /\ hist.timeouts < MaxTimeouts
    /\ Quiet
    /\ wk' = [wk EXCEPT ![k] = [w EXCEPT !.open = FALSE, !.st = "", !.rc = 0]]
    /\ hist' = [hist EXCEPT !.timeouts = @ + 1]
    /\ UNCHANGED_DB
    /\ UNCHANGED <<tx, now, nOps, proc>>

\* await sleep(POLL_INTERVAL_MS) is over: the loop tests isRunning
WorkerWake(k) ==
    /\ wk[k].pc = "sleep"
    /\ WorkerStep(k, Loop(k))

\* SIGINT / SIGTERM: shutdown() clears isRunning and arms the grace timer;
\* whatever the loop is awaiting goes on
Signal(k) ==
    /\ ~proc[k].exited
    /\ ~proc[k].timer
    /\ proc' = [proc EXCEPT ![k] = [@ EXCEPT !.isRunning = FALSE, !.timer = TRUE,
                                            !.sigAt = wk[k].pc]]
    /\ UNCHANGED_DB
    /\ UNCHANGED <<tx, now, nOps, wk, hist>>

\* the process of worker k ends: its connections close, the database rolls
\* back what it had open (the claiming transaction and the handler's own)
ProcessExit(k) ==
    /\ proc' = [proc EXCEPT ![k] = [@ EXCEPT !.isRunning = FALSE, !.timer = FALSE,
                                            !.exited = TRUE]]
    /\ wk' = [wk EXCEPT ![k] = [IdleWorker EXCEPT !.pc = "exited", !.ev = wk[k].ev]]
    /\ tx' = [tx EXCEPT ![k] = IF wk[k].pc = "handler" THEN IdleTx ELSE @]
    /\ UNCHANGED_DB
    /\ UNCHANGED <<now, nOps, hist>>

\* the grace timer fires SHUTDOWN_GRACE_MS after the signal: process.exit(0)
ForcedExit(k) ==
    /\ proc[k].timer
    /\ ~proc[k].exited
    /\ ProcessExit(k)

\* the process of worker k crashes or is killed inside processNextEvent:
\* after the claim, during the dispatch or before the commit
InFlight(k) == wk[k].pc \in {"mark", "handler", "finish", "commit"}

Crash(k) ==
    /\ InFlight(k)
    /\ ~proc[k].exited
    /\ ProcessExit(k)

\* the caller of a business operation takes its outcome (the outcome of a
\* handler's createInvoice goes to the worker)
ReturnToCaller(t) ==
    /\ wk[t].pc # "handler"
    /\ Return(t)

(***************************************************************************)
(* The ledger: stock mutations and the sale state machine.                 *)
(***************************************************************************)
\* the database after set-up: the stock rows stock0, the sales of present
\* with the numbers no0, every header DRAFT, nothing moved or published
BootNumbered(stock0, present, lines0, no0) ==
    /\ stock = stock0
    /\ minQ = [pr \in Pairs |-> IF pr = <<"p1", "w1">> THEN 1 ELSE 0]
    /\ moves = <<>>
    /\ sales = [s \in SaleRows |-> IF s \in present THEN "DRAFT" ELSE NoSale]
    /\ saleNo = no0
    /\ outbox = <<>>
    /\ tx = [t \in Tx |-> IdleTx]
    /\ now = 0
    /\ nOps = 0
    /\ orders = [o \in OrderRows |-> IF o \in OrderIds THEN "DRAFT" ELSE NoSale]
    /\ orderNo = [o \in OrderRows |-> IF o = "o1" THEN NextNumber(NoNumber)
                                      ELSE IF o = "o2" THEN NextNumber(NextNumber(NoNumber))
                                      ELSE NoNumber]
    /\ lines = lines0
    /\ currentStock = [p \in Products |-> IF p = "p1" THEN 2 ELSE IF p = "p2" THEN 1 ELSE 0]
    /\ invoices = <<>>
    /\ catalog = SeedCatalog
    /\ wk = [k \in Workers |-> IdleWorker]
    /\ hist = NoHistory
    /\ proc = [k \in Workers |-> Running]

\* the sales of present numbered in creation order, from the first number
SeedNumbers(present) ==
    [s \in SaleRows |-> IF s \notin present THEN NoNumber
                        ELSE IF s = "s1" THEN NextNumber(NoNumber)
                        ELSE NextNumber(NextNumber(NoNumber))]

BootWith(stock0, present, lines0) ==
    BootNumbered(stock0, present, lines0, SeedNumbers(present))

\* the items of the seeded sales and orders
SeedLines(present) ==
    [h \in Headers |-> IF h \in present THEN SaleItems(h)
                       ELSE IF h \in OrderIds THEN OrderItems(h)
                       ELSE <<>>]

Boot(stock0, present) == BootWith(stock0, present, SeedLines(present))

\* one stock row, empty, with a low-stock threshold
Init == Boot([pr \in Pairs |-> IF pr = <<"p1", "w1">> THEN 0 ELSE NoRow], SaleIds)

Next ==
    \/ \E t \in Tx : BeginIncrease(t)
    \/ \E t \in Tx : BeginDecrease(t)
    \/ \E t \in Tx : BeginAdjust(t)
    \/ \E t \in Tx : BeginApproveSale(t)
    \/ \E t \in Tx : BeginCancelSale(t)
    \/ \E t \in Tx : IncreaseLock(t)
    \/ \E t \in Tx : IncreaseBalance(t)
    \/ \E t \in Tx : DecreaseLock(t)
    \/ \E t \in Tx : DecreaseBalance(t)
    \/ \E t \in Tx : AdjustLock(t)
    \/ \E t \in Tx : AdjustBalance(t)
    \/ \E t \in Tx : LowStockEvent(t)
    \/ \E t \in Tx : LockSale(t)
    \/ \E t \in Tx : ReserveLock(t)
    \/ \E t \in Tx : ReserveBalance(t)
    \/ \E t \in Tx : ReturnMovement(t)
    \/ \E t \in Tx : ReturnBalance(t)
    \/ \E t \in Tx : SaleStatus(t)
    \/ \E t \in Tx : SaleEvent(t)
    \/ \E t \in Tx : Commit(t)
    \/ \E t \in Tx : Timeout(t)
    \/ \E t \in Tx : Return(t)
    \/ Tick

Spec == Init /\ [][Next]_vars

(***************************************************************************)
(* returnStock as a primitive any module may call inside a transaction.    *)
(***************************************************************************)
NextReturn ==
    \/ \E t \in Tx : BeginIncrease(t)
    \/ \E t \in Tx : BeginReturnStock(t)
    \/ \E t \in Tx : IncreaseLock(t)
    \/ \E t \in Tx : IncreaseBalance(t)
    \/ \E t \in Tx : ReturnMovement(t)
    \/ \E t \in Tx : ReturnBalance(t)
    \/ \E t \in Tx : Commit(t)
    \/ \E t \in Tx : Timeout(t)
    \/ \E t \in Tx : Return(t)

SpecReturn == Init /\ [][NextReturn]_vars

(***************************************************************************)
(* Document numbers: createSale on an empty sales table.                    *)
(***************************************************************************)
InitSeq == Boot([pr \in Pairs |-> IF pr = <<"p1", "w1">> THEN 0 ELSE NoRow], {})

NextSeq ==
    \/ \E t \in Tx : BeginCreateSale(t)
    \/ \E t \in Tx : SeqSelect(t)
    \/ \E t \in Tx : SeqWake(t)
    \/ \E t \in Tx : SaleInsert(t)
    \/ \E t \in Tx : Commit(t)
    \/ \E t \in Tx : Timeout(t)
    \/ \E t \in Tx : Return(t)

SpecSeq == InitSeq /\ [][NextSeq]_vars

(***************************************************************************)
(* Document numbers: createSale, one call at a time, on a sales table that  *)
(* holds a given count of numbers issued one after the other.               *)
(***************************************************************************)
\* how many numbers the scope holds at the start: none, one, and counts
\* around a new digit and around the width of the padding
Counts == {0, 1, 2, 9, 10, 99, 100, 99998, 99999, 100000}

\* the two newest rows of a table of n numbers (the rows before them are
\* below both, as text and as numbers, and do not decide the read)
NewestRows(n) == IF n = 0 THEN {} ELSE IF n = 1 THEN {"s1"} ELSE SaleIds

\* their numbers: n - 1 and n as generateSequentialNumber issued them
IssuedNumbers(n) ==
    [s \in SaleRows |-> IF s \notin NewestRows(n) THEN NoNumber
                        ELSE IF s = "s1" /\ n > 1 THEN padStart(Digits(n - 1), PadWidth)
                        ELSE padStart(Digits(n), PadWidth)]

InitCount ==
    \E n \in Counts :
        BootNumbered([pr \in Pairs |-> IF pr = <<"p1", "w1">> THEN 0 ELSE NoRow],
                     NewestRows(n), SeedLines(NewestRows(n)), IssuedNumbers(n))

\* the one caller of createSale
Caller == CHOOSE t \in Tx : TRUE

NextCount ==
    \/ BeginCreateSale(Caller)
    \/ SeqSelect(Caller)
    \/ SaleInsert(Caller)
    \/ Commit(Caller)
    \/ Timeout(Caller)
    \/ Return(Caller)

SpecCount == InitCount /\ [][NextCount]_vars

(***************************************************************************)
(* Documents: sales, orders, invoices and the handler of ORDER_APPROVED,    *)
(* over stocked rows.                                                       *)
(***************************************************************************)
InitOrder ==
    Boot([pr \in Pairs |-> IF pr[1] \in {"p1", "p2"} THEN 2 ELSE NoRow], SaleIds)

NextOrder ==
    \/ \E t \in Tx : BeginApproveSale(t)
    \/ \E t \in Tx : BeginCancelSale(t)
    \/ \E t \in Tx : BeginCreateSale(t)
    \/ \E t \in Tx : BeginApproveOrder(t)
    \/ \E t \in Tx : BeginCancelOrder(t)
    \/ \E t \in Tx : BeginCreateInvoice(t)
    \/ \E t \in Tx : HandleOutboxEvent(t)
    \/ \E t \in Tx : LockSale(t)
    \/ \E t \in Tx : ReserveLock(t)
    \/ \E t \in Tx : ReserveBalance(t)
    \/ \E t \in Tx : ReturnMovement(t)
    \/ \E t \in Tx : ReturnBalance(t)
    \/ \E t \in Tx : SaleStatus(t)
    \/ \E t \in Tx : SaleEvent(t)
    \/ \E t \in Tx : SeqSelect(t)
    \/ \E t \in Tx : SeqWake(t)
    \/ \E t \in Tx : SaleInsert(t)
    \/ \E t \in Tx : LockOrder(t)
    \/ \E t \in Tx : OrderReserveLock(t)
    \/ \E t \in Tx : OrderReserveMovement(t)
    \/ \E t \in Tx : OrderReturnBalance(t)
    \/ \E t \in Tx : OrderReturnMovement(t)
    \/ \E t \in Tx : OrderStatus(t)
    \/ \E t \in Tx : OrderEvent(t)
    \/ \E t \in Tx : InvoiceRead(t)
    \/ \E t \in Tx : InvoiceInsert(t)
    \/ \E t \in Tx : Commit(t)
    \/ \E t \in Tx : Timeout(t)
    \/ \E t \in Tx : Return(t)

SpecOrder == InitOrder /\ [][NextOrder]_vars

(***************************************************************************)
(* The outbox worker: two workers polling the outbox while an order is     *)
(* approved.                                                               *)
(***************************************************************************)
\* the database after approveOrder(o1), cancelOrder(o1), and with sale also
\* approveSale(s1) in between: the event of the cancelled order (and the event
\* of the sale) wait in the outbox
WorkerBoot(sale) ==
    /\ stock = [pr \in Pairs |-> IF pr[1] \notin {"p1", "p2"} THEN NoRow
                                 ELSE IF ~sale THEN 2
                                 ELSE IF pr[1] = "p1" THEN 1 ELSE 0]
    /\ minQ = [pr \in Pairs |-> IF pr = <<"p1", "w1">> THEN 1 ELSE 0]
    /\ moves = <<Movement("", "p1", "", "ORDER_OUT", 1, "o1")>>
               \o (IF sale THEN <<Movement("orgA", "p1", "w1", "OUT", 1, "s1"),
                                  Movement("orgA", "p2", "w1", "OUT", 2, "s1")>>
                   ELSE <<>>)
               \o <<Movement("", "p1", "", "CANCEL_IN", 1, "o1")>>
    /\ sales = [s \in SaleRows |-> IF s = "s1" /\ sale THEN "APPROVED"
                                   ELSE IF s \in SaleIds THEN "DRAFT" ELSE NoSale]
    /\ saleNo = [s \in SaleRows |-> IF s = "s1" THEN NextNumber(NoNumber)
                                    ELSE IF s = "s2" THEN NextNumber(NextNumber(NoNumber))
                                    ELSE NoNumber]
    /\ outbox = <<Event("ORDER_APPROVED", OrderApproveKey("o1"), "o1", 0, 0)>>
                \o (IF sale THEN <<Event("SALE_APPROVED", SaleApproveKey("s1"), "s1", 0, 0)>>
                    ELSE <<>>)
    /\ tx = [t \in Tx |-> IdleTx]
    /\ now = 0
    /\ nOps = 0
    /\ orders = [o \in OrderRows |-> IF o = "o1" THEN "CANCELLED"
                                     ELSE IF o = "o2" THEN "DRAFT" ELSE NoSale]
    /\ orderNo = [o \in OrderRows |-> IF o = "o1" THEN NextNumber(NoNumber)
                                      ELSE IF o = "o2" THEN NextNumber(NextNumber(NoNumber))
                                      ELSE NoNumber]
    /\ lines = [h \in Headers |-> IF h \in SaleIds THEN SaleItems(h)
                                   ELSE IF h \in OrderIds THEN OrderItems(h)
                                   ELSE <<>>]
    /\ currentStock = [p \in Products |-> IF p = "p1" THEN 2 ELSE IF p = "p2" THEN 1 ELSE 0]
    /\ invoices = <<>>
    /\ catalog = SeedCatalog
    /\ wk = [k \in Workers |-> IdleWorker]
    /\ hist = NoHistory
    /\ proc = [k \in Workers |-> Running]

InitWorker == WorkerBoot(TRUE)

NextWorker ==
    \/ \E k \in Workers : WorkerSelect(k)
    \/ \E k \in Workers : WorkerDispatch(k)
    \/ \E k \in Workers : WorkerHandlerReturn(k)
    \/ \E k \in Workers : WorkerFinish(k)
    \/ \E k \in Workers : WorkerCommit(k)
    \/ \E k \in Workers : WorkerTimeout(k)
    \/ \E k \in Workers : WorkerWake(k)
    \/ \E t \in Tx : BeginApproveOrder(t)
    \/ \E t \in Tx : LockOrder(t)
    \/ \E t \in Tx : OrderReserveLock(t)
    \/ \E t \in Tx : OrderReserveMovement(t)
    \/ \E t \in Tx : OrderStatus(t)
    \/ \E t \in Tx : OrderEvent(t)
    \/ \E t \in Tx : InvoiceRead(t)
    \/ \E t \in Tx : SeqSelect(t)
    \/ \E t \in Tx : InvoiceInsert(t)
    \/ \E t \in Tx : Commit(t)
    \/ \E t \in Tx : Timeout(t)
    \/ \E t \in Tx : ReturnToCaller(t)

SpecWorker == InitWorker /\ [][NextWorker]_vars

\* the steps of worker k that its own process takes
WorkerProgress(k) ==
    \/ WorkerSelect(k)
    \/ WorkerDispatch(k)
    \/ WorkerHandlerReturn(k)
    \/ WorkerFinish(k)
    \/ WorkerCommit(k)
    \/ WorkerWake(k)

\* the steps of a running transaction and the hand-over of its outcome (with
\* one order to invoice no numbering read waits for another)
TxProgress(t) ==
    \/ LockOrder(t)
    \/ OrderReserveLock(t)
    \/ OrderReserveMovement(t)
    \/ OrderStatus(t)
    \/ OrderEvent(t)
    \/ InvoiceRead(t)
    \/ SeqSelect(t)
    \/ InvoiceInsert(t)
    \/ Commit(t)
    \/ ReturnToCaller(t)

\* the loop of startWorker keeps running, its awaits return, the database and
\* the handlers answer, and the claiming transaction stays within its time limit
InitWorkerFair == WorkerBoot(FALSE)

NextWorkerFair ==
    \/ \E k \in Workers : WorkerProgress(k)
    \/ \E t \in Tx : BeginApproveOrder(t)
    \/ \E t \in Tx : TxProgress(t)

SpecWorkerFair ==
    /\ InitWorkerFair
    /\ [][NextWorkerFair]_vars
    /\ \A k \in Workers : SF_vars(WorkerProgress(k))
    /\ \A t \in Tx : SF_vars(TxProgress(t))

(***************************************************************************)
(* Products and warehouses created in one organization.                    *)
(***************************************************************************)
NextProvision ==
    \/ \E t \in Tx : BeginCreateProduct(t)
    \/ \E t \in Tx : BeginCreateWarehouse(t)
    \/ \E t \in Tx : ProvisionFind(t)
    \/ \E t \in Tx : ProvisionStocks(t)
    \/ \E t \in Tx : ProvisionCommit(t)
    \/ \E t \in Tx : Timeout(t)
    \/ \E t \in Tx : Return(t)

SpecProvision == Init /\ [][NextProvision]_vars

(***************************************************************************)
(* Documents created: createSale and createOrder beside stock mutations.    *)
(***************************************************************************)
\* one sale and two orders exist, the stock rows of p1 and p2 are filled
InitCreate ==
    Boot([pr \in Pairs |-> IF pr[1] \in {"p1", "p2"} THEN 2 ELSE NoRow], {"s1"})

NextCreate ==
    \/ \E t \in Tx : BeginCreateSale(t)
    \/ \E t \in Tx : BeginCreateOrder(t)
    \/ \E t \in Tx : BeginDecrease(t)
    \/ \E t \in Tx : SeqSelect(t)
    \/ \E t \in Tx : SeqWake(t)
    \/ \E t \in Tx : SaleInsert(t)
    \/ \E t \in Tx : OrderInsert(t)
    \/ \E t \in Tx : DecreaseLock(t)
    \/ \E t \in Tx : DecreaseBalance(t)
    \/ \E t \in Tx : LowStockEvent(t)
    \/ \E t \in Tx : Commit(t)
    \/ \E t \in Tx : Timeout(t)
    \/ \E t \in Tx : Return(t)

SpecCreate == InitCreate /\ [][NextCreate]_vars

(***************************************************************************)
(* Shutdown of the workers: signals while the outbox is drained.            *)
(***************************************************************************)
NextShutdown ==
    \/ \E k \in Workers : WorkerSelect(k)
    \/ \E k \in Workers : WorkerDispatch(k)
    \/ \E k \in Workers : WorkerHandlerReturn(k)
    \/ \E k \in Workers : WorkerFinish(k)
    \/ \E k \in Workers : WorkerCommit(k)
    \/ \E k \in Workers : WorkerWake(k)
    \/ \E k \in Workers : Signal(k)
    \/ \E k \in Workers : ForcedExit(k)
    \/ \E t \in Tx : InvoiceRead(t)

\* the event loop runs the callback of a timer that is due; nothing is
\* assumed of the database, the handlers or the loop of startWorker
SpecShutdown ==
    /\ InitWorker
    /\ [][NextShutdown]_vars
    /\ \A k \in Workers : WF_vars(ForcedExit(k))

(***************************************************************************)
(* Lock order: two sales of the same two products approved concurrently.    *)
(***************************************************************************)
\* the item lists of the second sale: the products of the first in the same
\* order and in the opposite order
SecondLists == {<<Item("p1", 1), Item("p2", 1)>>, <<Item("p2", 1), Item("p1", 1)>>}

InitLocks ==
    \E l \in SecondLists :
        BootWith([pr \in Pairs |-> IF pr[1] \in {"p1", "p2"} THEN 2 ELSE NoRow], SaleIds,
                 [SeedLines(SaleIds) EXCEPT !["s1"] = <<Item("p1", 1), Item("p2", 1)>>,
                                            !["s2"] = l])

NextLocks ==
    \/ \E t \in Tx : BeginApproveSale(t)
    \/ \E t \in Tx : LockSale(t)
    \/ \E t \in Tx : ReserveLock(t)
    \/ \E t \in Tx : ReserveBalance(t)
    \/ \E t \in Tx : SaleStatus(t)
    \/ \E t \in Tx : SaleEvent(t)
    \/ \E t \in Tx : Commit(t)
    \/ \E t \in Tx : Timeout(t)
    \/ \E t \in Tx : Return(t)

SpecLocks == InitLocks /\ [][NextLocks]_vars

(***************************************************************************)
(* Crashes of the workers while the outbox is drained.                      *)
(***************************************************************************)
NextCrash ==
    \/ \E k \in Workers : WorkerSelect(k)
    \/ \E k \in Workers : WorkerDispatch(k)
    \/ \E k \in Workers : WorkerHandlerReturn(k)
    \/ \E k \in Workers : WorkerFinish(k)
    \/ \E k \in Workers : WorkerCommit(k)
    \/ \E k \in Workers : WorkerTimeout(k)
    \/ \E k \in Workers : WorkerWake(k)
    \/ \E k \in Workers : Crash(k)
    \/ \E t \in Tx : InvoiceRead(t)

SpecCrash == InitWorker /\ [][NextCrash]_vars

(***************************************************************************)
(* One worker process polling the outbox while orders are approved.         *)
(***************************************************************************)
\* the one process started with startWorker
SingleWorker == CHOOSE k \in Workers : TRUE

NextSingle ==
    \/ WorkerSelect(SingleWorker)
    \/ WorkerDispatch(SingleWorker)
    \/ WorkerHandlerReturn(SingleWorker)
    \/ WorkerFinish(SingleWorker)
    \/ WorkerCommit(SingleWorker)
    \/ WorkerTimeout(SingleWorker)
    \/ WorkerWake(SingleWorker)
    \/ \E t \in Tx : BeginApproveOrder(t)
    \/ \E t \in Tx : LockOrder(t)
    \/ \E t \in Tx : OrderReserveLock(t)
    \/ \E t \in Tx : OrderReserveMovement(t)
    \/ \E t \in Tx : OrderStatus(t)
    \/ \E t \in Tx : OrderEvent(t)
    \/ \E t \in Tx : InvoiceRead(t)
    \/ \E t \in Tx : SeqSelect(t)
    \/ \E t \in Tx : InvoiceInsert(t)
    \/ \E t \in Tx : Commit(t)
    \/ \E t \in Tx : Timeout(t)
    \/ \E t \in Tx : ReturnToCaller(t)

SpecSingle == InitWorker /\ [][NextSingle]_vars

(***************************************************************************)
(* Sales approved and cancelled, and nothing else moving stock.             *)
(***************************************************************************)
\* the stock rows of the seeded products of the organization
SeedStock == [pr \in Pairs |-> IF pr[1] \in {"p1", "p2"} THEN 2 ELSE NoRow]

InitRound == Boot(SeedStock, SaleIds)

NextRound ==
    \/ \E t \in Tx : BeginApproveSale(t)
    \/ \E t \in Tx : BeginCancelSale(t)
    \/ \E t \in Tx : LockSale(t)
    \/ \E t \in Tx : ReserveLock(t)
    \/ \E t \in Tx : ReserveBalance(t)
    \/ \E t \in Tx : ReturnMovement(t)
    \/ \E t \in Tx : ReturnBalance(t)
    \/ \E t \in Tx : SaleStatus(t)
    \/ \E t \in Tx : SaleEvent(t)
    \/ \E t \in Tx : Commit(t)
    \/ \E t \in Tx : Timeout(t)
    \/ \E t \in Tx : Return(t)

SpecRound == InitRound /\ [][NextRound]_vars

(***************************************************************************)
(* Properties.                                                             *)
(***************************************************************************)
Active(t) == tx[t].pc \notin {"idle", "done"}
Done(t, op, kind) == tx[t].pc = "done" /\ tx[t].op = op /\ tx[t].out = kind
StockPairs == {pr \in Pairs : stock[pr] # NoRow}

\* C1: no committed Stock row is negative, no transaction holds a negative
\* balance for a row it has locked, and a decrement refused with
\* InsufficientStock asked for more than was available
C1_NoNegativeStock ==
    /\ \A pr \in StockPairs : stock[pr] >= 0
    /\ \A t \in Tx, pr \in StockPairs :
          (Active(t) /\ StockRow(pr[1], pr[2]) \in tx[t].held) => View(t, pr) >= 0
    /\ \A t \in Tx :
          (tx[t].pc = "done" /\ tx[t].out = "InsufficientStock") => tx[t].a < tx[t].b

\* a decreaseStock was refused although the row held stock
C1_Witness ==
    \E t \in Tx : Done(t, "decreaseStock", "InsufficientStock") /\ tx[t].a > 0

\* C2: decreaseStock transactions on one row are serialized by its lock: two
\* never hold the row together, the balance a committing decrement checked is
\* the committed balance it decrements (no lost update), and a refused one
\* reports the committed balance of that moment
C2_Step(t) ==
    LET pr == <<tx[t].p, tx[t].w>> IN
    /\ (tx[t].op = "decreaseStock" /\ tx[t].pc = "commit" /\ tx'[t].pc = "done"
            /\ tx'[t].out = "ok")
         => /\ tx[t].prev = stock[pr]
            /\ stock'[pr] = stock[pr] - tx[t].q
            /\ stock'[pr] >= 0
    /\ (tx[t].op = "decreaseStock" /\ tx[t].pc = "lock" /\ tx'[t].pc = "done"
            /\ tx'[t].out = "InsufficientStock")
         => /\ tx'[t].a = stock[pr] /\ tx'[t].b = tx[t].q
            /\ stock[pr] < tx[t].q
            /\ stock' = stock
    /\ \A u \in Tx \ {t} : tx'[t].held \cap tx'[u].held = {}

C2_SerializedDecrements == [][\A t \in Tx : C2_Step(t)]_vars

\* two decrements of one row are in flight, one holding the lock, the other
\* waiting for it, and the balance cannot serve both
C2_Witness ==
    \E t \in Tx, u \in Tx :
        /\ t # u
        /\ tx[t].op = "decreaseStock" /\ tx[t].pc \in {"bal", "evt", "commit"}
        /\ tx[u].op = "decreaseStock" /\ tx[u].pc = "lock"
        /\ tx[t].p = tx[u].p /\ tx[t].w = tx[u].w
        /\ stock[<<tx[t].p, tx[t].w>>] < tx[t].q + tx[u].q

RECURSIVE SignedSum(_, _, _)
\* the sum of the movements of a pair among the first n, IN counted +, OUT -,
\* ADJUSTMENT with the sign adj
SignedSum(pr, adj, n) ==
    IF n = 0 THEN 0
    ELSE LET m == moves[n]
             sign == IF m.type = "IN" THEN 1 ELSE IF m.type = "OUT" THEN -1 ELSE adj
         IN SignedSum(pr, adj, n - 1)
              + (IF <<m.p, m.w>> = pr THEN sign * m.q ELSE 0)

Balance(pr) == IF stock[pr] = NoRow THEN 0 ELSE stock[pr]

\* C3: reconciliation law: with the sign of a movement fixed by its type
\* (IN +, OUT -, ADJUSTMENT one of +, -, none), every committed balance is the
\* signed sum of the movements of its pair
C3_Reconciliation ==
    \E adj \in {-1, 0, 1} :
        \A pr \in Pairs : Balance(pr) = SignedSum(pr, adj, Len(moves))

\* C4: tenant isolation: every committed movement was written by a caller of
\* the organization that owns its product and its warehouse
C4_TenantIsolation ==
    \A i \in 1..Len(moves) :
        /\ moves[i].org = ProductOrg(moves[i].p)
        /\ moves[i].org = WarehouseOrg(moves[i].w)

\* the committed database, without the clock and the running transactions
db == <<stock, minQ, moves, sales, saleNo, outbox, orders, currentStock, invoices,
       orderNo, lines>>

\* operation op meets a header whose status it cannot leave
WrongStatus(op, status) ==
    \/ op \in {"approveSale", "approveOrder"} /\ status # "DRAFT"
    \/ op \in {"cancelSale", "cancelOrder"} /\ status # "APPROVED"

C5_Refused(t) ==
    LET r == tx[t] IN
    /\ (/\ r.op \in {"approveSale", "cancelSale"} /\ r.pc = "lockSale"
        /\ r.s \in SaleIds /\ r.org = SaleOrg(r.s) /\ WrongStatus(r.op, sales[r.s])
        /\ tx'[t] # r /\ tx'[t].out # "Timeout")
         => /\ tx'[t].pc = "done" /\ tx'[t].out = "InvalidStatusTransition"
            /\ db' = db
    /\ (/\ r.op \in {"approveOrder", "cancelOrder"} /\ r.pc = "lockOrder"
        /\ r.o \in OrderIds /\ WrongStatus(r.op, orders[r.o])
        /\ tx'[t] # r /\ tx'[t].out # "Timeout")
         => /\ tx'[t].pc = "done" /\ tx'[t].out = "InvalidStatusTransition"
            /\ db' = db

\* C5: the only status changes of a Sale or Order header that commit are
\* DRAFT -> APPROVED and APPROVED -> CANCELLED (a sale row is created DRAFT);
\* approve on a header that is not DRAFT and cancel on one that is not APPROVED
\* fail with InvalidStatusTransition and leave the database unchanged
C5_StatusTransitions ==
    [][/\ \A s \in SaleRows :
            sales'[s] # sales[s] =>
                <<sales[s], sales'[s]>> \in {<<NoSale, "DRAFT">>, <<"DRAFT", "APPROVED">>,
                                             <<"APPROVED", "CANCELLED">>}
       /\ \A o \in OrderIds :
            orders'[o] # orders[o] =>
                <<orders[o], orders'[o]>> \in {<<"DRAFT", "APPROVED">>,
                                               <<"APPROVED", "CANCELLED">>}
       /\ \A t \in Tx : C5_Refused(t)]_vars

\* an operation was refused with InvalidStatusTransition after a header went
\* all the way to CANCELLED
C5_Witness ==
    /\ \E t \in Tx : tx[t].pc = "done" /\ tx[t].out = "InvalidStatusTransition"
    /\ \/ \E s \in SaleIds : sales[s] = "CANCELLED"
       \/ \E o \in OrderIds : orders[o] = "CANCELLED"

RECURSIVE ItemSum(_, _)
\* the quantity a list of items asks of product p
ItemSum(items, p) ==
    IF items = <<>> THEN 0
    ELSE (IF Head(items).p = p THEN Head(items).q ELSE 0) + ItemSum(Tail(items), p)

C6_Step(t) ==
    LET r == tx[t] IN
    (r.op = "approveSale" /\ r.pc # "done" /\ tx'[t].pc = "done") =>
        IF tx'[t].out = "ok"
        THEN /\ \A pr \in Pairs :
                  LET need == IF pr[2] = SaleWh(r.s) THEN ItemSum(SaleItems(r.s), pr[1])
                              ELSE 0
                  IN IF need = 0 THEN stock'[pr] = stock[pr]
                     ELSE /\ stock[pr] # NoRow
                          /\ stock'[pr] = stock[pr] - need
                          /\ stock'[pr] >= 0
             /\ Len(moves') = Len(moves) + Len(SaleItems(r.s))
             /\ sales[r.s] = "DRAFT" /\ sales'[r.s] = "APPROVED"
             /\ Len(outbox') = Len(outbox) + 1
             /\ outbox'[Len(outbox')].type = "SALE_APPROVED"
        ELSE /\ stock' = stock /\ moves' = moves
             /\ sales' = sales /\ outbox' = outbox

\* C6: approveSale is all-or-nothing: when it ends in an error, whichever item
\* failed, no balance, movement, sale status or outbox event has changed; when
\* it succeeds, every item had a row with enough stock and all are decremented
C6_ApproveSaleAtomic == [][\A t \in Tx : C6_Step(t)]_vars

\* approveSale failed on a later item after it had decremented an earlier one:
\* the balance it saw is below the committed balance it left behind
C6_Witness ==
    \E t \in Tx :
        /\ Done(t, "approveSale", "InsufficientStock")
        /\ tx[t].a < stock[<<"p1", "w1">>]
        /\ \A s \in SaleIds : sales[s] = "DRAFT"

\* C7: in every reachable state at most one Invoice row exists per order
C7_OneInvoicePerOrder ==
    \A o \in OrderIds : Cardinality(InvoicesOf(o)) <= 1

\* a transaction holds a number it obtained from generateSequentialNumber
HasNumber(t) == tx[t].pc \in {"ins", "commit"} /\ tx[t].no # NoNumber

\* C8: the numbers obtained in one scope are pairwise distinct and increasing:
\* no two running transactions hold the same number, and none holds a number
\* a committed document already has
C8_DistinctNumbers ==
    /\ \A t \in Tx, u \in Tx :
          (t # u /\ HasNumber(t) /\ HasNumber(u)) => tx[t].no # tx[u].no
    /\ \A t \in Tx, s \in SaleRows :
          (HasNumber(t) /\ tx[t].op = "createSale" /\ sales[s] # NoSale)
              => StrLess(saleNo[s], tx[t].no)

EventsOf(type, ref) == {i \in 1..Len(outbox) : outbox[i].type = type /\ outbox[i].ref = ref}

\* C9: outbox atomicity: a sale / order has exactly one *_APPROVED event when
\* its approval committed and none otherwise, and the outbox holds nothing
\* else: a transaction that rolled back left no event
C9_OutboxAtomicity ==
    /\ \A s \in SaleIds :
          Cardinality(EventsOf("SALE_APPROVED", s))
              = IF sales[s] \in {"APPROVED", "CANCELLED"} THEN 1 ELSE 0
    /\ \A o \in OrderIds :
          Cardinality(EventsOf("ORDER_APPROVED", o))
              = IF orders[o] \in {"APPROVED", "CANCELLED"} THEN 1 ELSE 0
    /\ Len(outbox) = Cardinality({s \in SaleIds : sales[s] \in {"APPROVED", "CANCELLED"}})
                     + Cardinality({o \in OrderIds : orders[o] \in {"APPROVED", "CANCELLED"}})

\* one approval committed with its event while another, which had published
\* its event, was rolled back by the timeout
C9_Witness ==
    /\ Len(outbox) = 1
    /\ \E t \in Tx : tx[t].pc = "done" /\ tx[t].out = "Timeout" /\ tx[t].a = 1
                     /\ tx[t].op \in {"approveSale", "approveOrder"}

C10_Step(t) ==
    LET r == tx[t] IN
    (/\ r.op = "handleOrderApproved" /\ r.pc = "iRead"
     /\ r.o \in OrderIds /\ orders[r.o] = "APPROVED" /\ InvoicesOf(r.o) # {}
     /\ tx'[t] # r /\ tx'[t].out # "Timeout")
       => /\ tx'[t].pc = "done" /\ tx'[t].out = "ok"
          /\ db' = db

Holds(k, i) == wk[k].ev = i /\ (wk[k].open \/ wk[k].pc = "handler")

\* C11: no outbox event is claimed or dispatched by two workers at
\* overlapping times, and a polling worker never waits for a locked row: its
\* SELECT returns at once with the next unlocked PENDING row or with none
C11_ExclusiveClaim ==
    /\ \A k \in Workers, u \in Workers, i \in 1..Len(outbox) :
          (Holds(k, i) /\ Holds(u, i)) => k = u
    /\ \A k \in Workers : (wk[k].pc = "poll" /\ Quiet) => ENABLED WorkerSelect(k)

Terminal(i) == outbox[i].status \in {"DONE", "FAILED"}

C12_Step ==
    /\ \A i \in 1..Len(outbox') :
          IF i > Len(outbox)
          THEN outbox'[i].status = "PENDING" /\ outbox'[i].retry = 0
          ELSE /\ outbox'[i] # outbox[i] =>
                    /\ outbox[i].status = "PENDING"
                    /\ \/ outbox'[i] = [outbox[i] EXCEPT !.status = "DONE"]
                       \/ outbox'[i] = [outbox[i] EXCEPT !.status = "FAILED",
                                                          !.retry = @ + 1]
                       \/ outbox'[i] = [outbox[i] EXCEPT !.retry = @ + 1]
               /\ Terminal(i) =>
                    /\ outbox'[i] = outbox[i]
                    /\ Dispatches(i)' = Dispatches(i)
                    /\ \A k \in Workers : wk'[k].ev = i => wk[k].ev = i
    /\ \A k \in Workers :
          /\ (~wk[k].open /\ wk'[k].open) =>
                /\ outbox[wk'[k].ev].status = "PENDING"
                /\ wk'[k].st = "PENDING" /\ wk'[k].rc = outbox[wk'[k].ev].retry
          /\ (wk[k].open /\ wk'[k].open /\ wk'[k].st # wk[k].st) =>
                \/ wk[k].st = "PENDING" /\ wk'[k].st = "PROCESSING"
                                        /\ wk'[k].rc = wk[k].rc
                \/ wk[k].st = "PROCESSING" /\ wk'[k].st = "DONE"
                                           /\ wk'[k].rc = wk[k].rc
                \/ wk[k].st = "PROCESSING" /\ wk'[k].st \in {"PENDING", "FAILED"}
                                           /\ wk'[k].rc = wk[k].rc + 1

\* C12: an outbox event starts PENDING; its status only moves PENDING ->
\* PROCESSING, PROCESSING -> DONE, PROCESSING -> PENDING with the retry count
\* incremented, or PROCESSING -> FAILED; a DONE or FAILED event is never
\* selected, dispatched or modified again
C12_StatusMachine == [][C12_Step]_vars

\* an event went PENDING -> PROCESSING -> PENDING once and is FAILED or DONE now,
\* while a worker polls
C12_Witness ==
    \E i \in 1..Len(outbox) :
        /\ Terminal(i)
        /\ Dispatches(i) >= 2
        /\ \E k \in Workers : wk[k].pc = "poll"

\* a worker records a handler failure of event i
C13_Failure(i) == outbox'[i] # outbox[i] /\ outbox'[i].status # "DONE"

C13_Step ==
    /\ \A i \in 1..Len(outbox) :
          C13_Failure(i) =>
              /\ outbox'[i].retry = outbox[i].retry + 1
              /\ outbox'[i].status =
                    IF outbox[i].retry + 1 >= outbox[i].max THEN "FAILED" ELSE "PENDING"
    /\ \A i \in 1..Len(outbox') :
          /\ outbox'[i].retry <= outbox'[i].max
          /\ outbox'[i].status = "FAILED" => Dispatches(i)' = outbox'[i].max

\* C13: every handler failure adds exactly one to the retry count and makes the
\* event FAILED when the new count has reached max_retries, PENDING otherwise;
\* the count never exceeds max_retries, and an event that ends FAILED was
\* dispatched exactly max_retries times
C13_RetryAccounting == [][C13_Step]_vars

EventIds == 1..MaxOps

Pending(i) == i <= Len(outbox) /\ outbox[i].status = "PENDING"

Settled(i) == i <= Len(outbox) /\ Terminal(i) /\ Dispatches(i) >= 1

C15_EveryPairHasStock ==
    \A p \in catalog.products, w \in catalog.warehouses : catalog.stocks[<<p, w>>] = 1

StockOps ==
    {"increaseStock", "decreaseStock", "adjustStock", "approveSale", "cancelSale",
     "returnStock"}

BalanceWrites(r) == <<r.pDelta, r.pSet, r.pNew>>

\* the balance of a pair as transaction record r has written it
BalanceOf(r, pr) ==
    IF r.pSet[pr] # NoRow THEN r.pSet[pr]
    ELSE (IF stock[pr] = NoRow THEN 0 ELSE stock[pr]) + r.pDelta[pr]

\* a step of t that writes a balance: the movement of that write is the last
\* one t inserted, in an earlier step, for the same pair and quantity
C16_Step(t) ==
    LET r == tx[t]
        n == tx'[t]
    IN
    (r.op \in StockOps /\ n.op = r.op /\ n.pc # "done"
        /\ BalanceWrites(n) # BalanceWrites(r)) =>
        /\ n.pMoves = r.pMoves
        /\ Len(r.pMoves) = (IF r.items = <<>> THEN 1 ELSE r.idx)
        /\ LET m == r.pMoves[Len(r.pMoves)]
               pr == <<m.p, m.w>>
           IN
           /\ \A x \in Pairs \ {pr} : BalanceOf(n, x) = BalanceOf(r, x)
           /\ BalanceOf(n, pr) - BalanceOf(r, pr) =
                 IF m.type = "IN" THEN m.q
                 ELSE IF m.type = "OUT" THEN 0 - m.q
                 ELSE IF BalanceOf(n, pr) > BalanceOf(r, pr) THEN m.q ELSE 0 - m.q

\* a committed balance changes only together with a movement of its pair
C16_Commit ==
    \A pr \in Pairs :
        stock'[pr] # stock[pr] =>
            \E i \in (Len(moves) + 1)..Len(moves') :
                moves'[i].p = pr[1] /\ moves'[i].w = pr[2]

\* C16: in increaseStock, decreaseStock, adjustStock, reserveStock (per item)
\* and returnStock (per item) the movement is inserted strictly before the
\* balance is written, and both in the same transaction
C16_MovementFirst == [][(\A t \in Tx : C16_Step(t)) /\ C16_Commit]_vars

\* an approval has reserved both items of its sale, movement then balance each
\* time, and a mutation of another kind has written its balance too
C16_Witness ==
    \E t \in Tx, u \in Tx :
        /\ tx[t].op = "approveSale" /\ tx[t].pc = "status" /\ Len(tx[t].pMoves) = 2
        /\ tx[u].op \in {"increaseStock", "decreaseStock", "adjustStock"}
        /\ tx[u].pc \in {"evt", "commit"} /\ Len(tx[u].pMoves) = 1

\* a decreaseStock of t commits in this step
C17_Commits(t) ==
    /\ tx[t].op = "decreaseStock" /\ tx[t].pc = "commit"
    /\ tx'[t].pc = "done" /\ tx'[t].out = "ok"

C17_Step(t) ==
    LET pr == <<tx[t].p, tx[t].w>>
        newQuantity == stock'[pr]
        minQuantity == minQ[pr]
    IN
    C17_Commits(t) =>
        IF minQuantity > 0 /\ newQuantity <= minQuantity
        THEN /\ Len(outbox') = Len(outbox) + 1
             /\ LET ev == outbox'[Len(outbox')] IN
                /\ ev.type = "LOW_STOCK" /\ ev.status = "PENDING"
                /\ ev.ref = tx[t].p
                /\ ev.cur = newQuantity /\ ev.min = minQuantity
                /\ \E minute \in 0..MaxMinute :
                      ev.key = LowStockKey(tx[t].p, tx[t].w, minute)
        ELSE outbox' = outbox

\* C17: a decreaseStock that commits publishes, in its own transaction, one
\* LOW_STOCK event exactly when minQuantity > 0 and the new balance is at or
\* below minQuantity, carrying the new balance and minQuantity; otherwise none
C17_LowStockEvent == [][\A t \in Tx : C17_Step(t)]_vars

\* a decrease has just committed at the threshold, with its event
C17_Witness ==
    \E t \in Tx :
        /\ Done(t, "decreaseStock", "ok")
        /\ tx[t].b = minQ[<<"p1", "w1">>]
        /\ stock[<<"p1", "w1">>] = tx[t].b
        /\ Len(outbox) = 1 /\ outbox[1].type = "LOW_STOCK"
        /\ outbox[1].cur = tx[t].b /\ outbox[1].min = minQ[<<"p1", "w1">>]
        /\ Len(moves) = 2 /\ moves[2].type = "OUT"

LowStockEvents == {i \in 1..Len(outbox) : outbox[i].type = "LOW_STOCK"}

\* C18: breaches of one (product, warehouse) within one minute bucket record
\* at most one LOW_STOCK event for the bucket, and none of the breaching
\* decreaseStock / adjustStock calls is lost over it: each still commits
C18_LowStockDedup ==
    /\ \A i \in LowStockEvents, j \in LowStockEvents :
          outbox[i].key = outbox[j].key => i = j
    /\ \A t \in Tx :
          tx[t].op \in {"decreaseStock", "adjustStock"} =>
              ~(tx[t].pc = "done" /\ tx[t].out = "UniqueViolation")

C19_Step(t) ==
    LET r == tx[t]
        n == tx'[t]
        pr == <<r.p, r.w>>
    IN
    /\ (r.op = "decreaseStock" /\ r.pc # "done" /\ n.pc = "done"
            /\ n.out = "InsufficientStock") =>
          /\ r.q > stock[pr]
          /\ n.a = stock[pr] /\ n.b = r.q
          /\ r.pMoves = <<>> /\ r.pEv = <<>> /\ BalanceWrites(r) = BalanceWrites(IdleTx)
          /\ db' = db
    /\ (r.op = "decreaseStock" /\ r.pc = "lock" /\ n # r
            /\ stock[pr] # NoRow /\ r.q > stock[pr]) =>
          /\ n.pc = "done"
          /\ n.out \in {"InsufficientStock", "Timeout"}

\* C19: a decreaseStock that asks for more than the balance fails with
\* InsufficientStock carrying the committed balance as available and the
\* requested quantity, and leaves the database as it was: no movement, no
\* event, no balance change
C19_InsufficientStock == [][\A t \in Tx : C19_Step(t)]_vars

\* a decrease of 2 was refused on a balance of 1 that earlier mutations left
C19_Witness ==
    \E t \in Tx :
        /\ Done(t, "decreaseStock", "InsufficientStock")
        /\ tx[t].a = 1 /\ tx[t].b = 2
        /\ stock[<<"p1", "w1">>] = 1
        /\ Len(moves) >= 1

\* an adjustStock of t commits in this step
C20_Commits(t) ==
    /\ tx[t].op = "adjustStock" /\ tx[t].pc = "commit"
    /\ tx'[t].pc = "done" /\ tx'[t].out = "ok"

C20_Step(t) ==
    LET r == tx[t]
        pr == <<r.p, r.w>>
        target == r.q
        current == stock[pr]
    IN
    C20_Commits(t) =>
        /\ stock' = [stock EXCEPT ![pr] = target]
        /\ IF target = current
           THEN db' = db
           ELSE /\ moves' = Append(moves, Movement(r.org, r.p, r.w, "ADJUSTMENT",
                                                   Abs(target - current), ""))
                /\ \A i \in 1..Len(outbox') :
                      i > Len(outbox) =>
                          outbox'[i].type = "LOW_STOCK" /\ outbox'[i].cur = target
                /\ Len(outbox') <= Len(outbox) + 1

\* C20: adjustStock to the current balance writes nothing (no movement, no
\* event, same balance); every committed adjustStock leaves the balance at
\* its target, so the same call again is that no-op; with a non-zero delta it
\* writes exactly one ADJUSTMENT movement of |target - current|
C20_AdjustFrame == [][\A t \in Tx : C20_Step(t)]_vars

\* adjustStock(2) has committed twice on a row that was at 0: one movement
\* of 2, and the second call returned the balance it found
C20_Witness ==
    \E t \in Tx :
        /\ Done(t, "adjustStock", "ok")
        /\ tx[t].a = 2 /\ tx[t].b = 2
        /\ nOps = 2
        /\ stock[<<"p1", "w1">>] = 2
        /\ Len(moves) = 1 /\ moves[1].type = "ADJUSTMENT" /\ moves[1].q = 2
        /\ outbox = <<>>

\* the invoices a step commits
NewInvoices == {i \in 1..Len(invoices') : i > Len(invoices)}

\* C21: an Invoice commits only for an order whose committed status is APPROVED
\* at that moment, also with a cancelOrder of the order running beside the
\* createInvoice; createInvoice on a DRAFT or CANCELLED order fails with
\* InvalidStatusTransition and leaves the database unchanged
C21_InvoiceOnlyApproved ==
    [][/\ \A i \in NewInvoices : orders[invoices'[i].order] = "APPROVED"
       /\ \A t \in Tx :
             (/\ tx[t].op = "createInvoice" /\ tx[t].pc = "iRead"
              /\ tx[t].o \in OrderIds /\ orders[tx[t].o] # "APPROVED"
              /\ tx'[t] # tx[t] /\ tx'[t].out # "Timeout")
               => /\ tx'[t].pc = "done" /\ tx'[t].out = "InvalidStatusTransition"
                  /\ db' = db]_vars
\* the header rows that exist
SaleHeaders == {x \in SaleRows : sales[x] # NoSale}
OrderHeaders == {x \in OrderRows : orders[x] # NoSale}

\* createSale / createOrder of transaction t commits in this step
C22_Commits(t) ==
    /\ tx[t].op \in {"createSale", "createOrder"} /\ tx[t].pc = "commit"
    /\ tx'[t].pc = "done" /\ tx'[t].out = "ok"

C22_Step(t) ==
    LET r == tx[t] IN
    /\ (r.op \in {"createSale", "createOrder"} /\ tx'[t] # r) =>
          /\ stock' = stock /\ minQ' = minQ /\ currentStock' = currentStock
          /\ moves' = moves /\ outbox' = outbox /\ invoices' = invoices
          /\ ~C22_Commits(t) => db' = db
    /\ (r.op = "createSale" /\ C22_Commits(t)) =>
          /\ sales[r.s] = NoSale /\ sales'[r.s] = "DRAFT"
          /\ lines'[r.s] = r.items /\ r.items \in ItemLists
          /\ saleNo'[r.s] = r.no
          /\ \A x \in SaleHeaders : StrLess(saleNo[x], r.no)
          /\ \E x \in SaleHeaders : parseInt(r.no) = parseInt(saleNo[x]) + 1
          /\ \A x \in SaleRows \ {r.s} : sales'[x] = sales[x] /\ saleNo'[x] = saleNo[x]
          /\ \A h \in Headers \ {r.s} : lines'[h] = lines[h]
          /\ orders' = orders /\ orderNo' = orderNo
    /\ (r.op = "createOrder" /\ C22_Commits(t)) =>
          /\ orders[r.o] = NoSale /\ orders'[r.o] = "DRAFT"
          /\ lines'[r.o] = r.items /\ r.items \in ItemLists
          /\ orderNo'[r.o] = r.no
          /\ \A x \in OrderHeaders : StrLess(orderNo[x], r.no)
          /\ \E x \in OrderHeaders : parseInt(r.no) = parseInt(orderNo[x]) + 1
          /\ \A x \in OrderRows \ {r.o} : orders'[x] = orders[x] /\ orderNo'[x] = orderNo[x]
          /\ \A h \in Headers \ {r.o} : lines'[h] = lines[h]
          /\ sales' = sales /\ saleNo' = saleNo

\* C22: createSale / createOrder persist the header in status DRAFT together
\* with its items and a freshly issued sequential number in one commit, or
\* nothing at all, and no step of theirs changes a Stock row, the movement
\* log or the outbox
C22_CreateFrame == [][\A t \in Tx : C22_Step(t)]_vars

\* a sale and an order were created DRAFT with their items and numbers after
\* a decreaseStock had moved stock and published its event
C22_Witness ==
    /\ sales["s2"] = "DRAFT" /\ orders["o3"] = "DRAFT"
    /\ Len(lines["s2"]) = 2 /\ lines["o3"] # <<>>
    /\ saleNo["s2"] = NextNumber(saleNo["s1"]) /\ orderNo["o3"] = NextNumber(orderNo["o2"])
    /\ moves # <<>> /\ outbox # <<>>
C23_Step(k) ==
    /\ ~proc[k].isRunning => ~proc'[k].isRunning
    /\ (~proc[k].isRunning /\ wk[k].pc # "poll") => wk'[k].pc # "poll"
    /\ (~proc[k].isRunning /\ wk[k].pc = "poll" /\ wk'[k].pc = "mark")
          => proc[k].sigAt = "poll"
    /\ (proc[k].isRunning /\ ~proc'[k].isRunning /\ ~proc'[k].exited)
          => /\ wk' = wk /\ tx' = tx /\ db' = db
             /\ proc'[k].timer
    /\ (wk[k].pc \in {"mark", "handler", "finish", "commit"} /\ wk'[k] # wk[k]
           /\ ~proc'[k].exited)
          => /\ wk'[k].pc \in {"handler", "finish", "commit", "poll", "stopped"}
             /\ wk'[k].pc = "stopped" <=> (wk[k].pc = "commit" /\ ~proc[k].isRunning)

\* C23: after SIGINT / SIGTERM a worker begins no further processNextEvent
\* (it claims at most the event of a call that was awaiting its SELECT when
\* the signal came), the signal leaves the call in flight untouched and
\* that call runs on to its commit, and the process exits in the end
\* whether or not the work in flight ever finishes
C23_GracefulShutdown ==
    /\ [][\A k \in Workers : C23_Step(k)]_vars
    /\ \A k \in Workers : (~proc[k].isRunning) ~> proc[k].exited

\* a worker was signalled while its handler ran, has committed the outcome of
\* that event and left the loop, its process still waiting for the timer
C23_Witness ==
    \E k \in Workers :
        /\ proc[k].sigAt = "handler" /\ ~proc[k].exited
        /\ wk[k].pc = "stopped"
        /\ outbox[1].retry > 0
\* the movements of type type that reference sale s
MovesOf(type, s) == {i \in 1..Len(moves) : moves[i].type = type /\ moves[i].ref = s}

\* transaction t has passed the status check of sale s and not yet ended
ActsOn(t, s) ==
    /\ tx[t].op \in {"approveSale", "cancelSale"} /\ tx[t].s = s
    /\ tx[t].pc \in {"rLock", "rBal", "cMov", "cBal", "status", "evt", "commit"}

C24_Step(t) ==
    LET r == tx[t] IN
    /\ (r.op \in {"approveSale", "cancelSale"} /\ r.pc = "commit"
            /\ tx'[t].pc = "done" /\ tx'[t].out = "ok")
         => /\ sales[r.s] = RequiredStatus(r.op)
            /\ sales'[r.s] = TargetStatus(r.op)
    /\ (r.op \in {"approveSale", "cancelSale"} /\ r.pc = "lockSale"
            /\ tx'[t].pc = "done" /\ tx'[t].out = "InvalidStatusTransition")
         => /\ sales[r.s] # RequiredStatus(r.op)
            /\ db' = db

\* C24: the lock on the header row serializes approveSale / cancelSale of one
\* sale: two never act on it together, the one that commits changes the
\* status it checked, a sale is reserved once per item with one
\* SALE_APPROVED event however many approvals ran, and the one that comes
\* second fails its status check without touching the database
C24_NoDoubleApproval ==
    /\ [][\A t \in Tx : C24_Step(t)]_vars
    /\ [](\A s \in SaleIds :
            /\ \A t \in Tx, u \in Tx : (ActsOn(t, s) /\ ActsOn(u, s)) => t = u
            /\ Cardinality(EventsOf("SALE_APPROVED", s)) <= 1
            /\ Cardinality(MovesOf("OUT", s))
                  = IF sales[s] = "DRAFT" THEN 0 ELSE Len(SaleItems(s))
            /\ Cardinality(MovesOf("IN", s))
                  = IF sales[s] = "CANCELLED" THEN Len(SaleItems(s)) ELSE 0)

\* two approvals of one DRAFT sale are in flight: the first is about to
\* commit, the second waits for the header row
C24_Witness ==
    \E t \in Tx, u \in Tx :
        /\ t # u
        /\ tx[t].op = "approveSale" /\ tx[t].pc = "commit"
        /\ tx[u].op = "approveSale" /\ tx[u].pc = "lockSale"
        /\ tx[u].s = tx[t].s /\ tx[u].org = tx[t].org
\* the position of the first item of product p in a list (0 when none)
Pos(items, p) ==
    IF \E i \in 1..Len(items) : items[i].p = p
    THEN CHOOSE i \in 1..Len(items) :
            items[i].p = p /\ \A j \in 1..(i - 1) : items[j].p # p
    ELSE 0

\* two lists name two shared products in opposite orders
OppositeOrder(a, b) ==
    \E p \in Products, q \in Products :
        /\ Pos(a, p) > 0 /\ Pos(a, q) > 0 /\ Pos(b, p) > 0 /\ Pos(b, q) > 0
        /\ Pos(a, p) < Pos(a, q) /\ Pos(b, q) < Pos(b, p)

\* reserveStock of t stands at lockStockForUpdate on a row u has locked
WaitsFor(t, u) ==
    /\ tx[t].op = "approveSale" /\ tx[t].pc = "rLock"
    /\ StockRow(tx[t].items[tx[t].idx].p, tx[t].w) \in tx[u].held

\* the stock rows an approveSale holds where it stands: those of the items
\* reserveStock has come to
RowsUpTo(r) ==
    LET n == IF r.pc = "rLock" THEN r.idx - 1
             ELSE IF r.pc = "rBal" THEN r.idx
             ELSE IF r.pc \in {"status", "evt", "commit"} THEN Len(r.items)
             ELSE 0
    IN {StockRow(r.items[i].p, r.w) : i \in 1..n}

StockRowsHeld(r) == {x \in r.held : x[1] = "stock"}

\* C25: reserveStock locks the stock rows one item at a time in the order of
\* the item list and keeps them to the end of the transaction; two approvals
\* wait for each other's rows only when their lists name two shared products
\* in opposite orders
C25_LockOrder ==
    /\ \A t \in Tx : tx[t].op = "approveSale" => StockRowsHeld(tx[t]) = RowsUpTo(tx[t])
    /\ \A t \in Tx, u \in Tx :
          (t # u /\ WaitsFor(t, u) /\ WaitsFor(u, t))
              => OppositeOrder(tx[t].items, tx[u].items)

\* two approvals whose sales list p1 and p2 in opposite orders each hold
\* their first row and wait for the row of the other
C25_Witness ==
    \E t \in Tx, u \in Tx :
        /\ t # u /\ WaitsFor(t, u) /\ WaitsFor(u, t)
        /\ tx[t].idx = 2 /\ tx[u].idx = 2
\* the process of worker k ends in this step with an event in flight
C26_Crashes(k) == InFlight(k) /\ ~proc[k].exited /\ proc'[k].exited

\* retry_count of the event as worker k read it when it claimed the row,
\* from what its open claiming transaction holds
ClaimedRetry(k) ==
    IF wk[k].pc = "commit" /\ wk[k].res # "ok" THEN wk[k].rc - 1 ELSE wk[k].rc

C26_Step(k) ==
    C26_Crashes(k) =>
        /\ outbox' = outbox
        /\ outbox[wk[k].ev].status = "PENDING"
        /\ wk[k].open => outbox[wk[k].ev].retry = ClaimedRetry(k)
        /\ \A u \in Workers \ {k} :
              (\A j \in 1..(wk[k].ev - 1) : outbox[j].status # "PENDING")
                  => (wk'[u].pc = "poll" => FirstCandidate(u)' = wk[k].ev)

\* C26: a worker that crashes or is killed inside processNextEvent leaves
\* its event committed as PENDING with the retry count it had when claimed,
\* free for the next poll of another worker; no committed row is ever
\* PROCESSING
C26_CrashSafety ==
    /\ [][\A k \in Workers : C26_Step(k)]_vars
    /\ [](\A i \in 1..Len(outbox) : outbox[i].status # "PROCESSING")
\* approveSale / cancelSale of t was called for an existing sale of another
\* organization and has not yet read it
Foreign(t) ==
    /\ tx[t].op \in {"approveSale", "cancelSale"} /\ tx[t].pc = "lockSale"
    /\ tx[t].s \in SaleIds /\ sales[tx[t].s] # NoSale
    /\ tx[t].org # SaleOrg(tx[t].s)

C27_Step(t) ==
    (Foreign(t) /\ tx'[t] # tx[t]) =>
        /\ tx'[t] \in {Outcome(tx[t].op, "OrganizationMismatch", 0, 0),
                       Outcome(tx[t].op, "Timeout", 0, 0)}
        /\ tx'[t].out = "OrganizationMismatch" => LockFree(SaleRow(tx[t].s), t)
        /\ db' = db

RECURSIVE MovedItems(_, _, _)
\* the movements of type type that reference sale s among the first n, in
\* the order of the log, each as the item it moved
MovedItems(type, s, n) ==
    IF n = 0 THEN <<>>
    ELSE IF moves[n].type = type /\ moves[n].ref = s
    THEN Append(MovedItems(type, s, n - 1), Item(moves[n].p, moves[n].q))
    ELSE MovedItems(type, s, n - 1)

\* what sale s holds of product p while it is approved
Reserved(s, p) == IF sales[s] = "APPROVED" THEN ItemSum(lines[s], p) ELSE 0

\* C28: with approveSale and cancelSale the only mutations, every balance is
\* its first value less what the sales now APPROVED hold - a sale approved
\* and then cancelled has given back exactly what it took - and the log
\* holds for a cancelled sale one OUT and one IN movement per item, of the
\* item's product and quantity, also when items share a product
C28_RoundTrip ==
    /\ \A pr \in StockPairs :
          stock[pr] = SeedStock[pr] - Reserved("s1", pr[1]) - Reserved("s2", pr[1])
    /\ \A s \in SaleIds :
          /\ MovedItems("OUT", s, Len(moves))
                = IF sales[s] = "DRAFT" THEN <<>> ELSE lines[s]
          /\ MovedItems("IN", s, Len(moves))
                = IF sales[s] = "CANCELLED" THEN lines[s] ELSE <<>>

\* the sale that names p1 in two items was approved and cancelled: p1 is
\* back at its first balance and the log holds two OUT and two IN movements
C28_Witness ==
    /\ sales["s2"] = "CANCELLED" /\ sales["s1"] = "DRAFT"
    /\ stock[<<"p1", "w1">>] = SeedStock[<<"p1", "w1">>]
    /\ Len(moves) = 4

\* the step hands the event worker k has claimed to handleOutboxEvent
Dispatching(k) == wk[k].pc = "mark" /\ wk'[k].pc \in {"handler", "finish"}

C29_Step == Dispatching(SingleWorker)
              => \A j \in 1..(wk[SingleWorker].ev - 1) : outbox[j].status # "PENDING"

NumberedSales == {s \in SaleRows : sales[s] # NoSale}

\* the largest numeric suffix stored (0 when there is none)
LargestSuffix ==
    IF NumberedSales = {} THEN 0
    ELSE LET n == {parseInt(saleNo[s]) : s \in NumberedSales}
         IN  CHOOSE x \in n : \A y \in n : y <= x

\* generateSequentialNumber returns to createSale in this step
Numbering(t) == tx[t].op = "createSale" /\ tx[t].pc = "seq" /\ tx'[t].pc = "ins"

C30_Step ==
    Numbering(Caller)
        => /\ parseInt(tx'[Caller].no) = LargestSuffix + 1
           /\ \A s \in NumberedSales : saleNo[s] # tx'[Caller].no

\* C30: called alone, generateSequentialNumber returns the number whose
\* suffix is one above the largest suffix stored, for every count of stored
\* numbers, so never a number that is stored already
C30_NextSuffix == [][C30_Step]_vars
====
